---- MODULE Spec2Model ----
(***************************************************************************)
(* Verification model of the dialogue resolution engine of ootsuki2.       *)
(*                                                                         *)
(* Text is a sequence of characters; one character is written as an ASCII  *)
(* name: hiragana by its reading ("ra"), katakana with prefix K ("Kra"),   *)
(* half-width katakana with HK, kanji with J ("Jnen"), full-width Latin    *)
(* with FW, "cho" is the long-vowel mark, "sp" the space.                  *)
(*                                                                         *)
(* Part 1 (FlowSpec): the Notion flow graph of                             *)
(*   src/core/notion_graph_engine.py  (NotionGraphEngine)                  *)
(*   src/core/notion_engine.py        (NotionEngine)                       *)
(* Part 2 (ResolveSpec): the keyword resolver of                           *)
(*   src/core/simple_graph_engine.py  (_find_node_by_keywords)             *)
(* Part 3 (ApiSpec): the chat and WebSocket endpoints of src/core/api.py   *)
(* Part 4 (CatalogSpec): the cached catalogue loader of                    *)
(*   src/core/conversation_node_system.py  (get_conversation_nodes)        *)
(* Part 5 (TurnSpec): the turns of a WebSocket session and the proactive   *)
(*   pushes, src/core/api.py, src/core/scheduler.py and the nodes of       *)
(*   src/core/simple_graph_engine.py they run                              *)
(* Part 6 (ResponderSpec): general_response of SimpleGraphEngine with the  *)
(*   cross sell of src/core/notion_client.py                               *)
(* Part 7 (NormalizeSpec): TextNormalizer of                               *)
(*   src/core/conversation_node_system.py and _normalize_text; "dakuten"   *)
(*   is the combining voiced sound mark U+3099, "sdakuten" the spacing     *)
(*   mark U+309B, "HKdakuten" the half-width mark U+FF9E, "Kva" the        *)
(*   katakana va U+30F7                                                    *)
(***************************************************************************)
EXTENDS Integers, Sequences, FiniteSets, TLC

(***************************************************************************)
(* Bounds of the model.                                                    *)
(***************************************************************************)
\* longest authored chain of nodes
MaxNodes == 23
\* node executions of one graph invocation explored (the graph runtime
\* aborts an invocation after a finite number of supersteps)
MaxSupersteps == 25
\* utterances of one session explored
MaxTurns == 2
\* chat requests, WebSocket connections and WebSocket messages explored
MaxRequests == 2
\* WebSocket connections explored
MaxConnections == 2
\* calls of get_conversation_nodes explored
MaxLoads == 3
\* WebSocket messages and passes of the scheduler's push loops explored
MaxMessages == 2
\* menus related to one menu under "issho ni osusume"
MaxRelations == 3
\* longest text handed to a normalizer
MaxText == 3
\* successive applications of a normalizer to one text
MaxApplications == 2

(***************************************************************************)
(* Text helpers: Python's  `a in b`  on str.                               *)
(***************************************************************************)
IsPrefixAt(sub, s, i) ==
    /\ i + Len(sub) - 1 <= Len(s)
    /\ \A j \in 1..Len(sub) : s[i + j - 1] = sub[j]

Contains(sub, s) ==
    \/ Len(sub) = 0
    \/ \E i \in 1..Len(s) : IsPrefixAt(sub, s, i)

(***************************************************************************)
(* Python dict helpers for the flow state.                                 *)
(***************************************************************************)
Get(s, k, d) == IF k \in DOMAIN s THEN s[k] ELSE d

Put(s, k, v) == [x \in (DOMAIN s) \cup {k} |-> IF x = k THEN v ELSE s[x]]

(***************************************************************************)
(* Words used by the Notion flow.                                          *)
(***************************************************************************)
Lunch == <<"Kra", "Kn", "Kchi">>
Menu == <<"Kme", "Kni", "Kyu_s", "cho">>
YoruMenu == <<"Jyoru">> \o Menu
YoruNoMenu == <<"Jyoru", "no">> \o Menu
Beer == <<"Kbi", "cho", "Kru">>
Sake == <<"Jsake">>
Osusume == <<"o", "su", "su", "me">>
Teishoku == <<"Jtei", "Jshoku">>
Kochira == <<"ha", "ko", "chi", "ra">>

\* NotionGraphEngine._parse_user_input: option_list
option_list == {
    Lunch, YoruMenu, <<"Jdo", "Jyou", "Jbi", "Jgen", "Jtei">> \o Lunch,
    <<"Jhi", "Jgawa", "ri">> \o Lunch \o Kochira,
    <<"Jju", "Jshi">> \o Lunch \o Kochira,
    Osusume \o Teishoku \o Kochira,
    <<"Jkai_umi", "Jsen">> \o Teishoku \o Kochira,
    Teishoku \o <<"Jya">> \o Menu \o Kochira,
    <<"Jitsu", "Jpin", "Jryo", "Jri">> \o Kochira,
    <<"Jkon", "Jban", "no">> \o Osusume \o <<"Jichi", "Jpin">> \o Kochira,
    Beer, <<"Jnichi", "Jhon", "Jshu">>, <<"Jshou", "Jchuu">>, <<"Kwa", "Ki", "Kn">>,
    <<"o", "Jsake", "ni", "Jau", "u", "tsu", "ma", "mi">>,
    Menu \o <<"wo", "Jmi", "ru">>,
    Osusume \o <<"wo", "Joshi", "e", "te">>,
    Beer \o <<"ku", "da", "sa", "i">> }

\* utterances the caller may put into initial_state["messages"]
FlowMessages == {
    Lunch,
    Lunch \o <<"a", "ru">>,
    Beer,
    <<"o">> \o Sake,
    <<"ko", "n", "ni", "chi", "ha">> }

\* hard cap of notion_node
HopCap == 20

NoNode == 0
Raise == -1

(***************************************************************************)
(* Responses and option lists (texts shown to the user are kept symbolic). *)
(***************************************************************************)
NoResponse == [kind |-> "empty", node |-> NoNode]
NodeMessage(n) == [kind |-> "node", node |-> n]
SystemErrorText == [kind |-> "system_error_apology", node |-> NoNode]
RestartText == [kind |-> "too_long_restart", node |-> NoNode]
TellMeMoreText == [kind |-> "apology_tell_me_more", node |-> NoNode]
LunchGuideText == [kind |-> "lunch_guide", node |-> NoNode]
DinnerGuideText == [kind |-> "dinner_guide", node |-> NoNode]
AlcoholGuideText == [kind |-> "alcohol_guide", node |-> NoNode]
WelcomeText == [kind |-> "welcome", node |-> NoNode]
OrderLaterText == [kind |-> "call_us_when_decided", node |-> NoNode]

SafeOptions == <<"menu_wo_miru", "osusume_wo_oshiete", "beer_kudasai">>
LunchOptions == <<"higawari_lunch", "osusume_teishoku", "sushi_lunch">>
DinnerOptions == <<"osusume_teishoku", "kaisen_teishoku", "ippin_ryori">>
AlcoholOptions == <<"beer", "nihonshu", "shochu", "wine">>
WelcomeOptions == <<"lunch", "yoru_menu", "doyoubi_gentei_lunch">>
NodeOptions(n) == <<"node_option">>


(***************************************************************************)
(* Part 2 (ResolveSpec): the keyword resolver of                           *)
(*   src/core/simple_graph_engine.py  (SimpleGraphEngine)                  *)
(* over the node snapshot built by                                         *)
(*   src/core/notion_client.py        (NotionClient.get_conversation_nodes)*)
(***************************************************************************)
\* nodes of one snapshot explored
MaxCatalogue == 2

ApplyTable(t, c) == IF c \in DOMAIN t THEN t[c] ELSE c

MapText(t, text) == [i \in 1..Len(text) |-> ApplyTable(t, text[i])]

RemoveChars(cs, text) == SelectSeq(text, LAMBDA c : c \notin cs)

\* str.lower(): Latin capitals, plain and full-width
LowerTable ==
    [u_l |-> "l_l", u_u |-> "l_u", u_n |-> "l_n", u_c |-> "l_c", u_h |-> "l_h",
     FW_l |-> "fw_l", FW_u |-> "fw_u", FW_n |-> "fw_n", FW_c |-> "fw_c", FW_h |-> "fw_h"]

lower(text) == MapText(LowerTable, text)

\* unicodedata.normalize('NFKC', text): compatibility forms of the alphabet
NFKCTable ==
    [fw_l |-> "l_l", fw_u |-> "l_u", fw_n |-> "l_n", fw_c |-> "l_c", fw_h |-> "l_h",
     FW_l |-> "u_l", FW_u |-> "u_u", FW_n |-> "u_n", FW_c |-> "u_c", FW_h |-> "u_h",
     isp |-> "sp", fwcomma |-> "comma", fwquestion |-> "question", fwexclam |-> "exclam",
     HKra |-> "Kra", HKn |-> "Kn", HKchi |-> "Kchi"]

\* NFKC, compatibility decomposition of the characters that NFKCTable
\* leaves: the spacing voiced mark becomes space + combining mark, the
\* half-width voiced mark becomes the combining mark
NFKCExpansion ==
    [sdakuten |-> <<"sp", "dakuten">>, HKdakuten |-> <<"dakuten">>]

\* NFKC, canonical composition of a kana with the combining voiced mark
\* (the hiragana wa has no composed form, the katakana wa has)
ComposeTable == [ka |-> "ga", Kka |-> "Kga", Kwa |-> "Kva"]

RECURSIVE decompose(_)
decompose(text) ==
    IF text = << >> THEN << >>
    ELSE (IF Head(text) \in DOMAIN NFKCExpansion THEN NFKCExpansion[Head(text)]
          ELSE <<ApplyTable(NFKCTable, Head(text))>>) \o decompose(Tail(text))

RECURSIVE compose(_)
compose(text) ==
    IF Len(text) < 2 THEN text
    ELSE IF text[2] = "dakuten" /\ text[1] \in DOMAIN ComposeTable
    THEN <<ComposeTable[text[1]]>> \o compose(Tail(Tail(text)))
    ELSE <<text[1]>> \o compose(Tail(text))

\* unicodedata.normalize('NFKC', text); a text without a voiced mark of its
\* own is mapped character by character
nfkc(text) ==
    LET decomposed == IF \E i \in 1..Len(text) : text[i] \in DOMAIN NFKCExpansion
                      THEN decompose(text)
                      ELSE MapText(NFKCTable, text)
    IN IF \E i \in 1..Len(decomposed) : decomposed[i] = "dakuten"
       THEN compose(decomposed)
       ELSE decomposed

\* text.replace of the full-width comma, full stop, question and exclamation mark
PunctTable ==
    [fwcomma |-> "comma", kuten |-> "period", fwquestion |-> "question", fwexclam |-> "exclam"]

\* str.maketrans katakana -> hiragana (the long-vowel mark is not in the table)
katakana_to_hiragana ==
    [Kra |-> "ra", Kn |-> "n", Kchi |-> "chi", Kme |-> "me", Kni |-> "ni",
     Kyu_s |-> "yu_s", Kbi |-> "bi", Kru |-> "ru", Ko |-> "o", Kdo |-> "do",
     Kbu |-> "bu", Kpu |-> "pu", Kko |-> "ko", Ksu |-> "su", Kse |-> "se",
     Ktsu |-> "tsu", Ktsu_s |-> "tsu_s", Kto |-> "to", Kwa |-> "wa", Ki |-> "i"]

\* re.sub(r'[, fwcomma touten]', ',')
CommaTable == [comma |-> "comma", fwcomma |-> "comma", touten |-> "comma"]

\* removed for flexible matching: space, ideographic space, hyphen, middle dot
StrippedChars == {"sp", "isp", "hyphen", "nakaguro"}

\* SimpleGraphEngine._normalize_text
normalize_text(text) ==
    IF Len(text) = 0 THEN text
    ELSE RemoveChars(StrippedChars,
            MapText(CommaTable,
              MapText(katakana_to_hiragana,
                MapText(PunctTable,
                  nfkc(text)))))

\* words of the resolver's alphabet
Nenmatsu == <<"Jnen", "Jmatsu">>
Bounenkai == <<"Jbou", "Jnen", "Jkai">>
Osechi == <<"o", "se", "chi">>
Ryouri == <<"Jryo", "Jri">>
Sushi == <<"Jju", "Jshi">>
OSushi == <<"o">> \o Sushi
SushiLunch == Sushi \o Lunch
Hors == <<"Ko", "cho", "Kdo", "Kbu", "Kru">>
Konnichiha == <<"ko", "n", "ni", "chi", "ha">>
LunchLatinCaps == <<"u_l", "u_u", "u_n", "u_c", "u_h">>
LunchLatin == <<"l_l", "l_u", "l_n", "l_c", "l_h">>
Enkai == <<"Jen", "Jkai">>
Yoyaku == <<"Jyo", "Jyaku">>

\* SimpleGraphEngine._expand_keywords: the variations table, restricted to
\* the keys that keywords of the explored snapshots can equal
variations(keyword) ==
    IF keyword = Sushi
    THEN << <<"su", "shi">>, OSushi, <<"ni", "gi", "ri">>, <<"Jnigi", "ri">>,
            <<"Jsushi_a">>, <<"Jsushi_b">> >>
    ELSE IF keyword = SushiLunch
    THEN << <<"su", "shi">> \o Lunch, Sushi \o <<"Kse", "Ktsu_s", "Kto">>,
            Sushi \o Teishoku, <<"ni", "gi", "ri">> \o Lunch >>
    ELSE IF keyword = Lunch
    THEN << <<"ra", "n", "chi">>, <<"Jhiru", "Jshoku">>, <<"o", "Jhiru">>, LunchLatin >>
    ELSE IF keyword = Beer
    THEN << <<"bi", "cho", "ru">>, <<"Jnama">> \o Beer, <<"Jnama">>,
            <<"l_d", "l_r", "l_a", "l_f", "l_t">> >>
    ELSE << >>

InSeq(x, sq) == \E i \in 1..Len(sq) : sq[i] = x

RECURSIVE AppendNew(_, _)
\* for variant in ...: if variant not in expanded: expanded.append(variant)
AppendNew(expanded, variants) ==
    IF Len(variants) = 0 THEN expanded
    ELSE AppendNew(IF InSeq(Head(variants), expanded) THEN expanded
                   ELSE Append(expanded, Head(variants)),
                   Tail(variants))

RECURSIVE ExpandFrom(_, _, _)
ExpandFrom(keywords, i, expanded) ==
    IF i > Len(keywords) THEN expanded
    ELSE ExpandFrom(keywords, i + 1, AppendNew(expanded, variations(keywords[i])))

\* SimpleGraphEngine._expand_keywords
expand_keywords(keywords) == ExpandFrom(keywords, 1, keywords)

RECURSIVE SumSeq(_)
SumSeq(sq) == IF Len(sq) = 0 THEN 0 ELSE Head(sq) + SumSeq(Tail(sq))

RECURSIVE MaxSeq(_)
MaxSeq(sq) ==
    IF Len(sq) = 0 THEN 0
    ELSE LET m == MaxSeq(Tail(sq)) IN IF Head(sq) > m THEN Head(sq) ELSE m

\* whitespace that str.split() splits on
Whitespace == {"sp", "isp", "tab", "newline"}

RECURSIVE split(_)
\* str.split(): the maximal runs of non-whitespace characters
split(text) ==
    IF Len(text) = 0 THEN << >>
    ELSE IF Head(text) \in Whitespace THEN split(Tail(text))
    ELSE LET rest == split(Tail(text))
         IN IF Len(text) > 1 /\ text[2] \notin Whitespace
            THEN <<(<<Head(text)>> \o Head(rest))>> \o Tail(rest)
            ELSE <<(<<Head(text)>>)>> \o rest

\* which branch of the keyword loop a normalized keyword takes
KeywordBranch(normalized_keyword, normalized_input) ==
    IF normalized_keyword = normalized_input THEN "exact"
    ELSE IF Contains(normalized_keyword, normalized_input) THEN "keyword_in_input"
    ELSE IF Contains(normalized_input, normalized_keyword) /\ Len(normalized_input) >= 2
    THEN "input_in_keyword"
    ELSE "none"

\* an exact match scored 5 instead of 50
KeywordPoints_ExactWorthFive(normalized_keyword, normalized_input) ==
    LET b == KeywordBranch(normalized_keyword, normalized_input)
    IN IF b = "exact" THEN 5
       ELSE IF b = "keyword_in_input" THEN 25
       ELSE IF b = "input_in_keyword" THEN 20
       ELSE 0

KeywordPoints(normalized_keyword, normalized_input) ==
    LET b == KeywordBranch(normalized_keyword, normalized_input)
    IN IF b = "exact" THEN 50
       ELSE IF b = "keyword_in_input" THEN 25
       ELSE IF b = "input_in_keyword" THEN 20
       ELSE 0

KeywordMatchedLength(normalized_keyword, normalized_input) ==
    LET b == KeywordBranch(normalized_keyword, normalized_input)
    IN IF b \in {"exact", "keyword_in_input"} THEN Len(normalized_keyword)
       ELSE IF b = "input_in_keyword" THEN Len(normalized_input)
       ELSE 0

NormalizedKeywords(keywords) ==
    LET e == expand_keywords(keywords)
    IN [i \in 1..Len(e) |-> normalize_text(lower(e[i]))]

\* +100 when node name and input contain one another
NameScore(node_name, normalized_input) ==
    LET normalized_node_name == normalize_text(lower(node_name))
    IN IF Contains(normalized_node_name, normalized_input)
          \/ Contains(normalized_input, normalized_node_name)
       THEN 100 ELSE 0

\* +30 per word of the node name (2 characters or more) found in the input
NameWordScore(node_name, normalized_input) ==
    LET node_name_words == split(normalize_text(lower(node_name)))
    IN SumSeq([i \in 1..Len(node_name_words) |->
                 IF Len(node_name_words[i]) >= 2
                    /\ Contains(node_name_words[i], normalized_input)
                 THEN 30 ELSE 0])

KeywordScore(keywords, normalized_input) ==
    LET ks == NormalizedKeywords(keywords)
    IN SumSeq([i \in 1..Len(ks) |-> KeywordPoints(ks[i], normalized_input)])

longest_matched_keyword_length(keywords, normalized_input) ==
    LET ks == NormalizedKeywords(keywords)
    IN MaxSeq([i \in 1..Len(ks) |-> KeywordMatchedLength(ks[i], normalized_input)])

SubcategoryScore(subcategory, normalized_input) ==
    IF Len(subcategory) > 0
       /\ LET normalized_subcategory == normalize_text(lower(subcategory))
          IN \/ Contains(normalized_subcategory, normalized_input)
             \/ Contains(normalized_input, normalized_subcategory)
    THEN 15 ELSE 0

\* trigger phrases of the year-end banquet node
bonenkai_keywords ==
    << Bounenkai, <<"Jbou", "Jshin", "Jnen", "Jkai">>,
       <<"Jkai", "Jsha", "no">> \o Bounenkai, <<"Jshoku_b", "Jba", "no">> \o Bounenkai,
       Bounenkai \o <<"Kpu", "Kra", "Kn">>, Bounenkai \o Menu,
       Bounenkai \o <<"Kko", "cho", "Ksu">>,
       Nenmatsu \o <<"no">> \o Enkai, Nenmatsu \o <<"Jnomi", "mi", "Jkai">>, Nenmatsu >>

\* trigger phrases of the New-Year dish (osechi) node
osechi_keywords ==
    << Osechi, <<"o", "Jsetsu">>, Osechi \o Ryouri, <<"Jshou", "Jgatsu">> \o Ryouri,
       Osechi \o Yoyaku, Osechi \o <<"Jchuu", "Jmon">>,
       Osechi \o <<"i", "tsu", "ma", "de">>, Osechi \o <<"Juke", "ke", "Jto", "ri">>,
       Nenmatsu \o Ryouri, Nenmatsu \o Hors, Nenmatsu \o Hors \o Yoyaku >>

AnyContained(phrases, normalized_input) ==
    \E i \in 1..Len(phrases) :
        Contains(normalize_text(lower(phrases[i])), normalized_input)

has_bonenkai_keyword(normalized_input) ==
    AnyContained(bonenkai_keywords, normalized_input)

\* the literals are compared with the normalized input as they are written
is_ordoruburu_only(normalized_input) ==
    Contains(Hors, normalized_input) /\ ~Contains(Nenmatsu \o Hors, normalized_input)

has_osechi_keyword(normalized_input) ==
    ~is_ordoruburu_only(normalized_input)
    /\ AnyContained(osechi_keywords, normalized_input)

ExclusionPenalty == 1000

\* the penalty of osechi_info left out
ExclusivityPenalty_BonenkaiOnly(node_id, normalized_input) ==
    IF node_id = "bonenkai_intro" /\ ~has_bonenkai_keyword(normalized_input)
    THEN ExclusionPenalty ELSE 0

\* score -= 1000 for bonenkai_intro / osechi_info when their phrases are absent
ExclusivityPenalty(node_id, normalized_input) ==
    (IF node_id = "bonenkai_intro" /\ ~has_bonenkai_keyword(normalized_input)
     THEN ExclusionPenalty ELSE 0)
    + (IF node_id = "osechi_info" /\ ~has_osechi_keyword(normalized_input)
       THEN ExclusionPenalty ELSE 0)

bonenkai_bonus(node_id, normalized_input) ==
    IF node_id = "bonenkai_intro" /\ has_bonenkai_keyword(normalized_input) THEN 100 ELSE 0

osechi_bonus(node_id, normalized_input) ==
    IF node_id = "osechi_info" /\ has_osechi_keyword(normalized_input) THEN 200 ELSE 0

priority_bonus(node_id, priority, normalized_input) ==
    IF bonenkai_bonus(node_id, normalized_input) > 0
       \/ osechi_bonus(node_id, normalized_input) > 0
    THEN (10 - priority) * 2
    ELSE (10 - priority) * 3

SpecificityBonus(keywords, normalized_input) ==
    longest_matched_keyword_length(keywords, normalized_input) * 3

ClassBonus(implementation_class) ==
    IF implementation_class = "BanquetEntryNode" THEN 5 ELSE 0

\* the part of a node's score that comes from matching the utterance
MatchScore(node_data, normalized_input) ==
    NameScore(node_data.name, normalized_input)
    + NameWordScore(node_data.name, normalized_input)
    + KeywordScore(node_data.keywords, normalized_input)
    + SubcategoryScore(node_data.subcategory, normalized_input)
    + SpecificityBonus(node_data.keywords, normalized_input)

\* the score one iteration of the loop of _find_node_by_keywords computes
NodeScore(node_id, node_data, normalized_input) ==
    MatchScore(node_data, normalized_input)
    - ExclusivityPenalty(node_id, normalized_input)
    + priority_bonus(node_id, node_data.priority, normalized_input)
    + bonenkai_bonus(node_id, normalized_input)
    + osechi_bonus(node_id, normalized_input)
    + ClassBonus(node_data.implementation_class)

\* if score > best_score: best_score = score; best_match = node_data
BetterThanBest(score, best_score) == score > best_score

RECURSIVE BestFrom(_, _, _, _, _)
BestFrom(nodes, normalized_input, i, best_match, best_score) ==
    IF i > Len(nodes) THEN [match |-> best_match, score |-> best_score]
    ELSE LET score == NodeScore(nodes[i].id, nodes[i], normalized_input)
         IN IF BetterThanBest(score, best_score)
            THEN BestFrom(nodes, normalized_input, i + 1, i, score)
            ELSE BestFrom(nodes, normalized_input, i + 1, best_match, best_score)

\* SimpleGraphEngine._find_node_by_keywords: position of the returned node
\* in conversation_nodes, 0 for None
find_node_by_keywords(user_input, conversation_nodes) ==
    IF Len(conversation_nodes) = 0 THEN 0
    ELSE LET best == BestFrom(conversation_nodes, normalize_text(lower(user_input)), 1, 0, 0)
         IN IF best.score > 0 THEN best.match ELSE 0

\* NotionClient.get_conversation_nodes and the dict built by
\* ConversationNodeSystem.get_conversation_nodes: the node dict of a page
NodeOfPage(page) ==
    [id |-> page.id, name |-> page.name, keywords |-> page.keywords,
     category |-> page.category, subcategory |-> page.subcategory,
     priority |-> page.priority, implementation_class |-> page.implementation_class]

get_conversation_nodes(ps) == [i \in 1..Len(ps) |-> NodeOfPage(ps[i])]

\* pages of the conversation node database (the Catalog)
Page(id, name, keywords, subcategory, category, priority, impl, enabled) ==
    [id |-> id, name |-> name, keywords |-> keywords, subcategory |-> subcategory,
     category |-> category, priority |-> priority, implementation_class |-> impl,
     enabled |-> enabled]

PagePool ==
    { Page("g_nenmatsu", Menu, <<Nenmatsu>>, <<>>, "food", 5, "", TRUE),
      Page("g_nenmatsu_ryouri", Menu, <<Nenmatsu \o Ryouri>>, <<>>, "food", 5, "", TRUE),
      Page("g_sushi", Menu, <<Sushi>>, <<>>, "food", 5, "", TRUE),
      Page("g_sushi_lunch", Menu, <<SushiLunch>>, <<>>, "food", 5, "", TRUE),
      Page("g_lunch", Menu, <<Lunch>>, <<>>, "food", 5, "", TRUE),
      Page("bonenkai_intro", Bounenkai, <<Bounenkai, Nenmatsu>>, <<>>, "banquet", 1, "", TRUE),
      Page("osechi_info", Osechi, <<Osechi, Nenmatsu \o Ryouri>>, <<>>, "osechi", 1, "", TRUE),
      Page("closed_sushi", Sushi, <<Sushi>>, <<>>, "food", 1, "", FALSE),
      Page("banquet_entry", Enkai, <<>>, <<>>, "banquet", 99, "BanquetEntryNode", TRUE),
      Page("lunch_sub", Menu, <<>>, Lunch, "food", 12, "", TRUE),
      Page("no_priority", Teishoku, <<Teishoku>>, <<>>, "food", 999, "", TRUE) }

Snapshots ==
    { ps \in UNION { [1..n -> PagePool] : n \in 0..MaxCatalogue } :
         \A i, j \in 1..Len(ps) : i # j => ps[i].id # ps[j].id }

Words ==
    { Nenmatsu, Bounenkai, Osechi, Ryouri, Sushi, OSushi, Lunch, LunchLatinCaps,
      Konnichiha, Hors }

\* second words of a two-word utterance
Tails == { Ryouri, Lunch, Hors, Osechi }

Utterances ==
    Words \cup { w1 \o w2 : w1 \in Words, w2 \in Tails }
          \cup { w1 \o <<"sp">> \o Lunch : w1 \in {Sushi, OSushi} }

VARIABLES
    pages,          \* pages of the conversation node database, in query order
    utterance,      \* the user input handed to the resolver
    resolved,       \* position of the node the resolver returned, 0 for None
    rpc,            \* resolver: ready, done (_find_node_by_keywords), queried (process_query)
    catalogue,      \* the authored nodes and transition rules (Notion DBs)
    state,          \* the State dict held by the compiled graph
    pc,             \* graph node scheduled next: idle, notion_node, ...
    supersteps,     \* node executions of the running invocation
    turns,          \* invocations started so far
    execCount,      \* executions of notion_node in the running invocation
    observedStep,   \* step_count value tested by the latest notion_node
    rendered,       \* node ids handed to run_node in the running invocation
    raisedIn,       \* TRUE once notion_node caught an exception in this run
    afterFallback,  \* renders that followed a fallback_response in this run
    delivered,      \* final states returned to the caller, oldest first
    features,       \* which engines create_app could build
    ai_engine,      \* AIEngine: llm, uuids drawn, sessions
    active_connections, \* ConnectionManager: session id -> connection, 0 none
    session_metadata,   \* ConnectionManager: session ids with metadata
    sockets,        \* WebSocket connections accepted so far, oldest first
    proactive_tasks,\* connections whose delayed_proactive task is pending
    outbox,         \* what was delivered to clients, oldest first
    requests,       \* chat requests, connections and WebSocket messages so far
    catalog_configured, \* notion_client, config and the database id are set
    conversation_nodes_cache, \* ConversationNodeSystem.conversation_nodes_cache
    cache_fresh,    \* cache_expiry is set and lies in the future
    loader,         \* per caller: its position in get_conversation_nodes
    complete,       \* every dict a finished conversion of a query result gives
    last_good,      \* the dict of the latest load whose query succeeded
    loads,          \* calls of get_conversation_nodes so far
    in_flight,      \* per connection: the turn between receive_json and send_json
    scratch_left,   \* per session id: the scratch its latest turn left in context
    last_push,      \* the latest proactive invocation and what became of it
    received,       \* WebSocket messages taken by the receive loops so far
    pushes,         \* passes of the scheduler's push loops so far
    gpc,            \* responder: idle, end_flow, done
    general,        \* what the running general_response met and produced
    raw_text,       \* the text handed to a normalizer and to expand_synonyms
    applied,        \* the results of normalizing raw_text, and of normalizing again
    normalizer,     \* which normalizer is applied: none, normalize_term, _normalize_text
    synonyms,       \* what expand_synonyms returned for raw_text
    expanded        \* TRUE once expand_synonyms returned

flowVars == <<catalogue, state, pc, supersteps, turns, execCount, observedStep,
              rendered, raisedIn, afterFallback, delivered>>

resolveVars == <<pages, utterance, resolved, rpc>>

apiVars == <<features, ai_engine, active_connections, session_metadata, sockets,
             proactive_tasks, outbox, requests>>

catalogVars == <<catalog_configured, conversation_nodes_cache, cache_fresh, loader,
                 complete, last_good, loads>>

turnVars == <<in_flight, scratch_left, last_push, received, pushes>>

responderVars == <<gpc, general>>

normalizeVars == <<raw_text, applied, normalizer, synonyms, expanded>>

vars == <<flowVars, resolveVars, apiVars, catalogVars, turnVars, responderVars,
          normalizeVars>>

(***************************************************************************)
(* The catalogue: a chain 1 -> 2 -> ... -> len of nodes whose transition   *)
(* rules all have the same condition, closed by an end node, a dead end or *)
(* an edge back to the first node.                                         *)
(***************************************************************************)
Catalogues ==
    [ len : 1..MaxNodes,
      tail : {"end", "dead", "loop"},
      ctype : {"Keyword", "Option click"},
      timeRule : {0, 2},
      hasStart : BOOLEAN ]

HasCycle(cat) == cat.tail = "loop"

\* NotionEngine.get_start_node
get_start_node(cat) == IF cat.hasStart THEN 1 ELSE NoNode

\* NotionEngine.get_node_by_id (TRUE when a page with that node id exists)
NodeExists(cat, n) == n \in 1..cat.len

\* ConversationNode.is_end_node / node_type == "end"
is_end_node(cat, n) == cat.tail = "end" /\ n = cat.len

\* target of the transition rule leaving node n (to_urls[0])
RuleTarget(cat, n) ==
    IF n < cat.len THEN n + 1
    ELSE IF cat.tail = "loop" THEN 1 ELSE NoNode

\* NotionGraphEngine._parse_user_input
parse_user_input(s) ==
    LET messages == Get(s, "messages", <<>>)
    IN IF Len(messages) = 0 THEN [input_type |-> "text", value |-> <<>>]
       ELSE LET last_message == messages[Len(messages)]
            IN IF last_message \in option_list
               THEN [input_type |-> "option", value |-> last_message]
               ELSE [input_type |-> "text", value |-> last_message]

\* NotionEngine.match_transition; the context handed over by notion_node is
\* the dict of _create_context, so a time based rule raises AttributeError
match_transition(ctype, condition_value, user_input) ==
    IF ctype = "Keyword"
    THEN user_input.input_type = "text" /\ Contains(condition_value, user_input.value)
    ELSE IF ctype = "Option click"
    THEN user_input.input_type = "option" /\ user_input.value = condition_value
    ELSE FALSE

\* NotionEngine.get_next_node: NoNode, a node id, or Raise
get_next_node(cat, n, user_input) ==
    IF cat.timeRule = n /\ RuleTarget(cat, n) # NoNode THEN Raise
    ELSE IF RuleTarget(cat, n) # NoNode /\ match_transition(cat.ctype, Lunch, user_input)
    THEN RuleTarget(cat, n)
    ELSE NoNode

\* NotionEngine.run_node / _get_fallback_response
run_node(cat, n) ==
    IF NodeExists(cat, n)
    THEN [message |-> NodeMessage(n), options |-> NodeOptions(n), end |-> is_end_node(cat, n)]
    ELSE [message |-> TellMeMoreText, options |-> SafeOptions, end |-> FALSE]

\* NotionGraphEngine._handle_error (error_message is only logged)
handle_error(s, error_message) ==
    Put(Put(Put(Put(s, "response", SystemErrorText),
                "options", SafeOptions),
            "should_push", TRUE),
        "intent", "fallback")

\* NotionGraphEngine.notion_node: the dict the node returns
notion_node(s, cat) ==
    LET s1 == Put(s, "step_count", Get(s, "step_count", 0) + 1)
    IN IF s1["step_count"] > HopCap THEN handle_error(s1, RestartText)
       ELSE
       LET cid0 == Get(s1, "current_node_id", NoNode)
           start_node == get_start_node(cat)
       IN IF cid0 = NoNode /\ start_node = NoNode THEN handle_error(s1, NoResponse)
          ELSE
          LET current_node_id == IF cid0 = NoNode THEN start_node ELSE cid0
              s2 == Put(s1, "current_node_id", current_node_id)
              user_input == parse_user_input(s2)
              result == run_node(cat, current_node_id)
              s3 == Put(Put(Put(s2, "response", result.message),
                            "options", result.options),
                        "should_push", TRUE)
          IN IF ~NodeExists(cat, current_node_id) THEN Put(s3, "intent", "fallback")
             ELSE IF is_end_node(cat, current_node_id) \/ result.end
             THEN Put(s3, "intent", "end")
             ELSE
             LET next_node == get_next_node(cat, current_node_id, user_input)
             IN IF next_node = Raise THEN handle_error(s3, NoResponse)
                ELSE IF next_node # NoNode
                THEN Put(Put(s3, "current_node_id", next_node), "intent", "continue")
                ELSE Put(s3, "intent", "fallback")

\* TRUE when this execution of notion_node reaches run_node
Renders(s, cat) ==
    /\ Get(s, "step_count", 0) + 1 <= HopCap
    /\ ~(Get(s, "current_node_id", NoNode) = NoNode /\ get_start_node(cat) = NoNode)

RenderedNode(s, cat) ==
    IF Get(s, "current_node_id", NoNode) = NoNode
    THEN get_start_node(cat)
    ELSE Get(s, "current_node_id", NoNode)

\* TRUE when this execution of notion_node ends in its except branch
Raises(s, cat) ==
    /\ Renders(s, cat)
    /\ NodeExists(cat, RenderedNode(s, cat))
    /\ ~is_end_node(cat, RenderedNode(s, cat))
    /\ get_next_node(cat, RenderedNode(s, cat), parse_user_input(s)) = Raise

\* NotionGraphEngine.fallback_response
fallback_response(s) ==
    LET messages == Get(s, "messages", <<>>)
        last_message == messages[Len(messages)]
        answered ==
            IF Len(messages) > 0
            THEN IF Contains(Lunch, last_message)
                 THEN Put(Put(s, "response", LunchGuideText), "options", LunchOptions)
                 ELSE IF Contains(YoruMenu, last_message) \/ Contains(YoruNoMenu, last_message)
                 THEN Put(Put(s, "response", DinnerGuideText), "options", DinnerOptions)
                 ELSE IF Contains(Beer, last_message) \/ Contains(Sake, last_message)
                 THEN Put(Put(s, "response", AlcoholGuideText), "options", AlcoholOptions)
                 ELSE Put(Put(s, "response", TellMeMoreText), "options", SafeOptions)
            ELSE Put(Put(s, "response", WelcomeText), "options", WelcomeOptions)
    IN Put(Put(answered, "should_push", TRUE), "intent", "continue")

\* NotionGraphEngine.end_flow
end_flow(s) ==
    IF Get(s, "response", NoResponse) = NoResponse
    THEN Put(s, "response", OrderLaterText)
    ELSE s

\* NotionGraphEngine.route_from_notion, with the edge map of build_graph
route_from_notion(s) ==
    LET intent == Get(s, "intent", "continue")
    IN IF intent = "end" THEN "end_flow"
       ELSE IF intent = "fallback" THEN "fallback_response"
       ELSE "notion_node"

\* class State: the keys the compiled StateGraph(State) keeps between nodes
StateKeys ==
    {"messages", "intent", "context", "response", "options", "should_push",
     "session_id", "current_node_id"}

\* the graph writes the declared keys of a node's return value to the state
ChannelWrite(old, ret) ==
    [k \in ((DOMAIN old) \cup (DOMAIN ret)) \cap StateKeys |->
        IF k \in DOMAIN ret THEN ret[k] ELSE old[k]]

\* the initial_state a caller passes to invoke
InitialState(msgs) ==
    [messages |-> msgs, intent |-> "", response |-> NoResponse,
     options |-> <<>>, should_push |-> FALSE, session_id |-> "s1"]

EmptyState == [session_id |-> "s1"]

(***************************************************************************)
(* Part 3 (ApiSpec): the HTTP chat endpoint and the WebSocket endpoint of  *)
(*   src/core/api.py  (chat, websocket_endpoint, ConnectionManager)        *)
(*   src/core/ai_engine.py  (AIEngine)                                     *)
(*   src/core/agent_engine.py  (AgentEngine.run)                           *)
(* A text is a sequence of parts; ExceptionText stands for str(e).         *)
(***************************************************************************)
\* session ids a client sends on its own
ClientIds == {"c1", "c2"}

\* str(uuid.uuid4()) of the n-th call
UuidPool == <<"u1", "u2", "u3", "u4", "u5", "u6", "u7", "u8">>

uuid4(n) == UuidPool[n]

AllIds == ClientIds \cup {UuidPool[i] : i \in 1..Len(UuidPool)}

\* a key without an entry in AIEngine.sessions
NoSession == [stored |-> FALSE, user |-> 0, assistant |-> 0]

\* session_id in self.sessions
Stored(eng) == {x \in AllIds : eng.sessions[x].stored}

ExceptionText == "str(e)"

ChatErrorPrefix == "chat_error_prefix"

AIUnavailableText == <<"ai_service_unavailable">>

GenerateErrorText == <<"generate_error_apology">>

AgentNoInfoText == <<"agent_no_information">>

WsErrorText == <<"ws_error_apology">>

WsUnavailableText == <<"ws_system_unavailable">>

LLMText == <<"llm_text">>

AgentText == <<"agent_text">>

GraphText == <<"graph_text">>

\* AIEngine.create_session: a new ChatSession under a new uuid
create_session(eng) ==
    [eng EXCEPT
        !.uuids = @ + 1,
        !.sessions[uuid4(eng.uuids + 1)] = [stored |-> TRUE, user |-> 0, assistant |-> 0]]

created_id(eng) == uuid4(eng.uuids + 1)

\* ChatSession.add_message
add_message(eng, session_id, role) ==
    IF role = "user"
    THEN [eng EXCEPT !.sessions[session_id].user = @ + 1]
    ELSE [eng EXCEPT !.sessions[session_id].assistant = @ + 1]

\* AIEngine.generate_response / generate_response_with_rag; llm_out is what
\* self.llm.invoke does: "str" or "blocks" (the type of response.content)
\* or "raise"
generate_response(eng, session_id, llm_out) ==
    IF ~eng.llm THEN [eng |-> eng, kind |-> "str", text |-> AIUnavailableText]
    ELSE
    LET eng1 == IF session_id \in Stored(eng) THEN eng ELSE create_session(eng)
        sid == IF session_id \in Stored(eng) THEN session_id ELSE created_id(eng)
        eng2 == add_message(eng1, sid, "user")
    IN IF llm_out = "raise"
       THEN [eng |-> eng2, kind |-> "str", text |-> GenerateErrorText]
       ELSE [eng |-> add_message(eng2, sid, "assistant"), kind |-> llm_out,
             text |-> LLMText]

\* AgentEngine.run; agent_out is what executor.invoke does: "str", "blocks"
\* (an output that is no str), "empty" or "raise"
agent_run(eng, session_id, has_message, agent_out) ==
    IF ~has_message THEN [eng |-> eng, used |-> FALSE, kind |-> "str", text |-> <<>>]
    ELSE
    LET eng1 == IF session_id \in Stored(eng) THEN eng ELSE create_session(eng)
        sid == IF session_id \in Stored(eng) THEN session_id ELSE created_id(eng)
    IN IF agent_out = "raise"
       THEN [eng |-> eng1, used |-> FALSE, kind |-> "str", text |-> <<>>]
       ELSE [eng |-> add_message(add_message(eng1, sid, "user"), sid, "assistant"),
             used |-> TRUE,
             kind |-> IF agent_out = "blocks" THEN "blocks" ELSE "str",
             text |-> IF agent_out = "empty" THEN AgentNoInfoText ELSE AgentText]

\* a message handed to the client
Delivery(to, type, message, options) ==
    [to |-> to, type |-> type, has_message |-> TRUE, message |-> message,
     has_options |-> TRUE, options |-> options, detail |-> <<>>]

\* the body of HTTPException(status_code=500, detail=...)
HttpError(to, detail) ==
    [to |-> to, type |-> "http_500", has_message |-> FALSE, message |-> <<>>,
     has_options |-> FALSE, options |-> <<>>, detail |-> detail]

\* ConnectionManager.disconnect
disconnect(conns, session_id) == [conns EXCEPT ![session_id] = 0]

\* session_id in self.active_connections
Registered(conns) == {x \in ClientIds : conns[x] # 0}

\* ConnectionManager.send_personal: the connection that gets the message,
\* 0 when nothing is sent
send_target(conns, socks, session_id) ==
    IF conns[session_id] # 0 /\ socks[conns[session_id]].state = "open"
    THEN conns[session_id] ELSE 0

\* ConnectionManager.send_personal: the registrations it leaves
send_personal(conns, socks, session_id) ==
    IF conns[session_id] # 0 /\ socks[conns[session_id]].state # "open"
    THEN disconnect(conns, session_id) ELSE conns

\* what chat computes: the engine state it leaves and the reply it builds
chat(eng, request_sid, has_message, agent_out, graph_out, llm_out) ==
    LET eng0 == IF request_sid = "" THEN create_session(eng) ELSE eng
        session_id == IF request_sid = "" THEN created_id(eng) ELSE request_sid
        a == IF features.agent_engine
             THEN agent_run(eng0, session_id, has_message, agent_out)
             ELSE [eng |-> eng0, used |-> FALSE, kind |-> "str", text |-> <<>>]
        g == generate_response(a.eng, session_id, llm_out)
        r == IF a.used
             THEN [eng |-> a.eng, kind |-> a.kind, text |-> a.text, options |-> <<>>]
             ELSE IF features.graph_engine /\ graph_out = "ok"
             THEN [eng |-> IF session_id \in Stored(a.eng)
                           THEN add_message(add_message(a.eng, session_id, "user"),
                                            session_id, "assistant")
                           ELSE a.eng,
                   kind |-> "str", text |-> GraphText, options |-> SafeOptions]
             ELSE [eng |-> g.eng, kind |-> g.kind, text |-> g.text, options |-> <<>>]
    IN [eng |-> r.eng,
        reply |-> IF r.kind = "str"
                  THEN Delivery(session_id, "chat", r.text, r.options)
                  ELSE HttpError(session_id, <<ChatErrorPrefix, ExceptionText>>)]

ApiIdle ==
    /\ features = [agent_engine |-> FALSE, graph_engine |-> FALSE, simple_graph |-> FALSE]
    /\ ai_engine = [llm |-> FALSE, uuids |-> 0, sessions |-> [x \in AllIds |-> NoSession]]
    /\ active_connections = [x \in ClientIds |-> 0]
    /\ session_metadata = {}
    /\ sockets = << >>
    /\ proactive_tasks = {}
    /\ outbox = << >>
    /\ requests = 0

(***************************************************************************)
(* Part 4 (CatalogSpec): loading and caching the conversation nodes,       *)
(*   src/core/conversation_node_system.py                                  *)
(*       (ConversationNodeSystem.get_conversation_nodes)                   *)
(*   src/core/notion_client.py  (NotionClient.get_conversation_nodes)      *)
(* A dict of nodes is a function from node ids to the revision of the      *)
(* page stored under the id, 0 when the id has no entry.                   *)
(***************************************************************************)
NodeIds == {"n1", "n2"}

\* callers of get_conversation_nodes
Callers == {"t1", "t2"}

\* {}
EmptyDict == [n \in NodeIds |-> 0]

NodeData(id, rev) == [id |-> id, rev |-> rev]

\* what databases.query can deliver: lists of node dicts; "" is a page
\* without a usable node id
DbContents ==
    { <<NodeData("n1", 1)>>,
      <<NodeData("n1", 1), NodeData("n2", 1)>>,
      <<NodeData("n1", 2), NodeData("n2", 2)>>,
      <<NodeData("", 1), NodeData("n2", 2)>> }

\* conversation_nodes[node_id] = node_data, for a node_data with an id
put_node(conversation_nodes, node_data) ==
    IF node_data.id # ""
    THEN [conversation_nodes EXCEPT ![node_data.id] = node_data.rev]
    ELSE conversation_nodes

\* the dict the loop builds from a list of node dicts
RECURSIVE to_dict(_, _)
to_dict(nodes, k) ==
    IF k = 0 THEN EmptyDict ELSE put_node(to_dict(nodes, k - 1), nodes[k])

\* the dict built in the cache itself
build_in_place(cache, building, node_data) ==
    [cache |-> put_node(building, node_data), building |-> put_node(building, node_data)]

\* one pass of the loop over nodes: the dict under construction is a local,
\* the cache is left alone
build_step(cache, building, node_data) ==
    [cache |-> cache, building |-> put_node(building, node_data)]

\* the cache check at the head of get_conversation_nodes
cache_hit(cache, fresh) == cache # EmptyDict /\ fresh

\* a caller that is not inside get_conversation_nodes
IdleCaller ==
    [pc |-> "idle", nodes |-> <<>>, building |-> EmptyDict, k |-> 0,
     failed |-> FALSE, prior_good |-> EmptyDict, result |-> EmptyDict]

CatalogIdle ==
    /\ catalog_configured = FALSE
    /\ conversation_nodes_cache = EmptyDict
    /\ cache_fresh = FALSE
    /\ loader = [t \in Callers |-> IdleCaller]
    /\ complete = {EmptyDict}
    /\ last_good = EmptyDict
    /\ loads = 0

(***************************************************************************)
(* Part 5 (TurnSpec): the turns of the WebSocket sessions, one step for    *)
(* each stretch of code the event loop runs without suspending,            *)
(*   src/core/api.py  (websocket_endpoint, delayed_proactive)              *)
(*   src/core/scheduler.py  (ProactiveScheduler.lunch_push, dinner_push)   *)
(*   src/core/simple_graph_engine.py  (SimpleGraphEngine.invoke and its    *)
(*       nodes greeting, bento_flow, option_click, proactive_recommend,    *)
(*       end_flow)                                                         *)
(* A response is a sequence of parts; a menu is its position in the        *)
(* result of the take-out query.                                           *)
(***************************************************************************)
\* datetime.now().hour: one hour of each stretch of the day that
\* _collect_context, greeting or proactive_recommend tell apart
Hours == {3, 12, 15, 19}

\* the hours the cron jobs of ProactiveScheduler.start fire in
CronHours == {11, 12, 17, 18}

\* the hours proactive_recommend documents as lunch time (11 to 14) and
\* dinner time (17 to 22); it documents the others as "no proactive push"
ServableHours == {h \in Hours : (11 <= h /\ h < 14) \/ (17 <= h /\ h < 22)}

\* _collect_context: the time zone of an hour
collect_time_zone(hour) ==
    IF 11 <= hour /\ hour < 14 THEN "lunch"
    ELSE IF (14 <= hour /\ hour < 24) \/ (0 <= hour /\ hour < 11) THEN "dinner"
    ELSE "other"

\* menus shown by one click on "bento (the rest is here)"
BentoPage == 10

\* lengths of karaage_menus + ichipin_menus a query can return
TakeoutPool == {0, 23}

\* the messages a client sends: "bento" and the option "bento (the rest is
\* here)"
Bento == "bento"

BentoMore == "bento_tsuzuki_ha_kochira"

UserMessages == {Bento, BentoMore}

LineContactMessage == "line_contact_message"

\* SubSeq(s, from, Len(s)), the slice s[from - 1:] of Python
Drop(s, n) == IF n >= Len(s) THEN << >> ELSE SubSeq(s, n + 1, Len(s))

\* the State dict the endpoints and the scheduler build for invoke;
\* display_menus stands for the menus the response text lists
TurnState(messages, trigger) ==
    [messages |-> messages,
     context |-> [trigger |-> trigger, time_zone |-> "", bento_remaining |-> << >>],
     response |-> << >>, options |-> << >>, should_push |-> FALSE,
     display_menus |-> << >>]

\* node greeting
greeting(s, hour) ==
    [s EXCEPT !.context.time_zone = collect_time_zone(hour),
              !.response = <<"greeting_text">>,
              !.options = <<"greeting_options", collect_time_zone(hour)>>]

\* route_intent, for the messages of UserMessages and the empty message of
\* a proactive invocation
route_intent(s) ==
    IF s.messages = << >> THEN "END"
    ELSE IF s.messages[Len(s.messages)] = BentoMore THEN "option_click"
    ELSE IF s.context.trigger = "proactive" THEN "proactive_recommend"
    ELSE IF s.messages[Len(s.messages)] = Bento THEN "bento_flow"
    ELSE "general"

\* node proactive_recommend
proactive_recommend(s, hour) ==
    LET time_zone == collect_time_zone(hour)
    IN IF time_zone = "lunch"
       THEN [s EXCEPT !.context.time_zone = time_zone,
                      !.response = <<"proactive_lunch_text">>,
                      !.options = <<"higawari_lunch", "sushi_lunch", "osusume_teishoku">>,
                      !.should_push = TRUE]
       ELSE IF time_zone = "dinner"
       THEN [s EXCEPT !.context.time_zone = time_zone,
                      !.response = <<"proactive_dinner_text">>,
                      !.options = <<"konban_no_osusume", "osusume_teishoku", "ippin_ryouri",
                                    "sake_ni_au_tsumami">>,
                      !.should_push = TRUE]
       ELSE [s EXCEPT !.context.time_zone = time_zone, !.should_push = FALSE]

\* node bento_flow: the first list is shown, the other two are kept in the
\* context
bento_flow(s, takeout) ==
    [s EXCEPT !.context.bento_remaining = [i \in 1..takeout |-> i],
              !.response = <<"bento_menu_text">>,
              !.options = IF takeout > 0 THEN <<BentoMore>> ELSE << >>]

\* node option_click, the branch of "bento (the rest is here)"
option_click(s, takeout) ==
    LET remaining_menus == IF s.context.bento_remaining # << >>
                           THEN s.context.bento_remaining
                           ELSE [i \in 1..takeout |-> i]
        display_menus == SubSeq(remaining_menus, 1,
                                IF Len(remaining_menus) < BentoPage
                                THEN Len(remaining_menus) ELSE BentoPage)
        remaining_after_display == Drop(remaining_menus, BentoPage)
    IN IF remaining_menus # << >>
       THEN [s EXCEPT !.context.bento_remaining = remaining_after_display,
                      !.display_menus = display_menus,
                      !.response = <<"bento_tsuzuki_text">>,
                      !.options = IF remaining_after_display # << >>
                                  THEN <<BentoMore>> ELSE << >>]
       ELSE [s EXCEPT !.response = <<"bento_ijou_text">>, !.options = << >>]

\* node end_flow of SimpleGraphEngine
simple_end_flow(s) ==
    LET original_response == IF s.response = << >> THEN <<"order_later_text">>
                             ELSE s.response
    IN [s EXCEPT !.response = Append(original_response, LineContactMessage)]

\* SimpleGraphEngine.invoke: greeting, the node route_intent names, end_flow
simple_graph_invoke(s, hour, takeout) ==
    LET g == greeting(s, hour)
        to == route_intent(g)
    IN IF to = "END" THEN g
       ELSE IF to = "proactive_recommend" THEN simple_end_flow(proactive_recommend(g, hour))
       ELSE IF to = "bento_flow" THEN simple_end_flow(bento_flow(g, takeout))
       ELSE IF to = "option_click" THEN simple_end_flow(option_click(g, takeout))
       ELSE simple_end_flow([g EXCEPT !.response = <<"general_text">>, !.options = << >>])

\* what the latest finished turn of a session left in its context
NoScratch == [written |-> FALSE, bento_remaining |-> << >>]

\* a connection whose handler waits in receive_json
NoTurn ==
    [busy |-> FALSE, state |-> TurnState(<< >>, "user"),
     result |-> TurnState(<< >>, "user"), error |-> "", prior |-> NoScratch]

\* the message of the receive loop for a turn
ws_reply(c, turn) ==
    IF turn.error = "unavailable" THEN Delivery(c, "error", WsUnavailableText, << >>)
    ELSE IF turn.error = "raise" THEN Delivery(c, "error", WsErrorText, << >>)
    ELSE Delivery(c, "response", turn.result.response, turn.result.options)

\* the result of delayed_proactive is the local of another frame   (mutant)
delayed_proactive_shared_result(turns_in_flight, c, result) ==
    [turns_in_flight EXCEPT ![c].result = result]

\* delayed_proactive: its proactive_state and its result are locals of its
\* own frame, the turn of the receive loop keeps its own
delayed_proactive(turns_in_flight, c, result) == turns_in_flight

NoPush ==
    [by |-> "none", session_id |-> "", hour |-> 0, should_push |-> FALSE,
     sent |-> FALSE, interleaved |-> FALSE]

TurnIdle ==
    /\ in_flight = [c \in 1..MaxConnections |-> NoTurn]
    /\ scratch_left = [x \in ClientIds |-> NoScratch]
    /\ last_push = NoPush
    /\ received = 0
    /\ pushes = 0

(***************************************************************************)
(* Part 6 (ResponderSpec): the node general_response from its call of the  *)
(* resolver on, and end_flow after it,                                     *)
(*   src/core/simple_graph_engine.py  (SimpleGraphEngine.general_response, *)
(*       _add_order_instruction, end_flow)                                 *)
(*   src/core/notion_client.py  (get_cross_sell_by_menu_name,              *)
(*       cross_sell_message)                                               *)
(* A menu related to the resolved one is its position in the relation      *)
(* "issho ni osusume"; an option is a record, kind "next" for the name of  *)
(* a next node and kind "also_order" for "<menu> mo chuumon".              *)
(***************************************************************************)
\* limit of get_cross_sell_by_menu_name
CrossSellLimit == 3

\* cross_sell_items[:2]
CrossSellOptions == 2

\* s[:n]
Take(s, n) == SubSeq(s, 1, IF n < Len(s) THEN n ELSE Len(s))

NextOption == [kind |-> "next", item |-> 0]

AlsoOrder(item) == [kind |-> "also_order", item |-> item]

\* the matched node: one of the five nodes _add_cross_sell_text names, a
\* node only _should_add_cross_sell_text_for_node names, or another node
NodeIdsMatched == {"tako_karaage", "gyoza_5", "other_node"}

\* target_node_ids of _add_cross_sell_text
target_node_ids == {"tako_karaage"}

\* subcategories of the matched node: none, "agemono, sake no tsumami"
Subcategories == {"", "agemono"}

\* templates: plain, naming the first related menu, holding the basashi
\* cross sell sentence already
Templates ==
    {<<"template">>, <<"template", "companion_1">>, <<"template", "basashi_sentence">>}

\* a run whose matched node is rendered reads nothing of the LLM
NodeEnvs ==
    [ matched : {TRUE},
      render_raises : {FALSE},
      node_id : NodeIdsMatched,
      subcategory : Subcategories,
      template : Templates,
      cross_sell_on : BOOLEAN,
      menu_found : BOOLEAN,
      relations : 0..MaxRelations,
      nameless : SUBSET (1..MaxRelations),
      proposal_msg : BOOLEAN,
      basashi_twice : BOOLEAN,
      next_options : {<< >>, <<NextOption>>, <<AlsoOrder(1)>>},
      has_llm : {FALSE},
      llm_out : {"raise"},
      query : {"other"},
      reflection : {"off"} ]

\* a run that reaches the LLM part reads nothing of the matched node
LLMEnvs ==
    [ matched : BOOLEAN,
      render_raises : {TRUE},
      node_id : {"other_node"},
      subcategory : {""},
      template : {<<"template">>},
      cross_sell_on : {FALSE},
      menu_found : {FALSE},
      relations : {0},
      nameless : {{}},
      proposal_msg : {FALSE},
      basashi_twice : {FALSE},
      next_options : {<< >>},
      has_llm : BOOLEAN,
      llm_out : {"raise", "empty", "text", "text_with_order_desk"},
      query : {"general_menu", "specific_menu", "other"},
      reflection : {"off", "same", "improved"} ]

\* what one run of general_response meets: the resolver's answer, the menu
\* database, the LLM and the cross reflection engine
Envs == NodeEnvs \cup LLMEnvs

\* response.content of the LLM
llm_content(llm_out) ==
    IF llm_out = "text" THEN LLMText
    ELSE IF llm_out = "text_with_order_desk" THEN <<"llm_text", "staff_made">>
    ELSE << >>

\* get_cross_sell_by_menu_name: the names of the first limit related pages
\* whose retrieve gives a name; found is FALSE for None
get_cross_sell_by_menu_name(menu_found, relations, nameless, limit) ==
    IF ~menu_found THEN [found |-> FALSE, recommended_list |-> << >>]
    ELSE [found |-> TRUE,
          recommended_list |->
              SelectSeq(Take([i \in 1..relations |-> i], limit),
                        LAMBDA i : i \notin nameless)]

\* cross_sell_message; found is FALSE for None
cross_sell_message(menu_found, relations, nameless, proposal_msg) ==
    LET data == get_cross_sell_by_menu_name(menu_found, relations, nameless,
                                            CrossSellLimit)
    IN IF ~data.found \/ data.recommended_list = << >>
       THEN [found |-> FALSE, text |-> << >>, items |-> << >>]
       ELSE [found |-> TRUE,
             text |-> IF proposal_msg THEN <<"proposal_msg">>
                      ELSE <<"default_cross_sell_msg">>,
             items |-> data.recommended_list]

\* _add_order_instruction
add_order_instruction(response_text) ==
    IF response_text = << >> THEN response_text
    ELSE IF InSeq("touch_panel", response_text) \/ InSeq("staff_made", response_text)
    THEN response_text
    ELSE Append(response_text, "order_instruction")

\* _should_add_cross_sell_text_for_node (no node of the model has
\* basashi_akami among its next nodes)
should_add_cross_sell_text_for_node(node_id, subcategory) ==
    \/ node_id \in target_node_ids \cup {"gyoza_5"}
    \/ subcategory \in {"agemono"}

\* _add_cross_sell_text (the trailing punctuation is left out)
add_cross_sell_text(response_text, node_id) ==
    IF response_text = << >> THEN response_text
    ELSE IF node_id \notin target_node_ids THEN response_text
    ELSE IF InSeq("basashi_sentence", response_text) THEN response_text
    ELSE Append(response_text, "basashi_sentence")

\* the cross links general_response adds for a subcategory
CrossLink(k) == [kind |-> "cross_link", item |-> k]

subcategory_options(subcategory) ==
    IF subcategory = "agemono" THEN <<CrossLink(1), CrossLink(2), CrossLink(3)>>
    ELSE << >>

\* general_response, the branch of a matched node: the template, the
\* cross sell sentences and the options (the decorations of the text and
\* the reordering of the options are left out)
render_node(env) ==
    LET template_text ==
            IF should_add_cross_sell_text_for_node(env.node_id, env.subcategory)
            THEN add_cross_sell_text(env.template, env.node_id)
            ELSE env.template
        cross_sell_data ==
            IF env.cross_sell_on
            THEN cross_sell_message(env.menu_found, env.relations, env.nameless,
                                    env.proposal_msg)
            ELSE [found |-> FALSE, text |-> << >>, items |-> << >>]
        adding == cross_sell_data.found /\ ~env.basashi_twice
        cross_sell_options_to_add ==
            IF adding
            THEN SelectSeq([i \in 1..Len(Take(cross_sell_data.items, CrossSellOptions))
                               |-> AlsoOrder(cross_sell_data.items[i])],
                           LAMBDA o : ~InSeq(o, env.next_options))
            ELSE << >>
    IN [matched |-> TRUE, rendered |-> TRUE,
        llm_invoked |-> FALSE, llm_returned |-> FALSE,
        llm_text |-> << >>,
        node_id |-> env.node_id, subcategory |-> env.subcategory,
        template |-> env.template, targets |-> env.next_options,
        response |-> template_text \o (IF adding THEN cross_sell_data.text ELSE << >>),
        options |-> env.next_options \o cross_sell_options_to_add
                        \o subcategory_options(env.subcategory),
        cross_sell_options |-> cross_sell_options_to_add,
        items |-> cross_sell_data.items,
        fetched |-> Len(cross_sell_data.items),
        added |-> Len(cross_sell_options_to_add)]

\* general_response after the resolver branch: the LLM, the order
\* instruction, the cross reflection, and the canned texts without an LLM
generic_response(env) ==
    LET is_menu_query == env.query # "other"
        content == llm_content(env.llm_out)
        with_order == IF is_menu_query THEN add_order_instruction(content) ELSE content
        response_text == IF env.reflection = "improved" THEN <<"improved_response">>
                         ELSE with_order
        canned == IF env.query = "general_menu" THEN <<"iroiro_gozaimasu">>
                  ELSE <<"nanika_osagashi_desuka">>
    IN [matched |-> env.matched, rendered |-> FALSE,
        node_id |-> env.node_id, subcategory |-> env.subcategory,
        template |-> env.template, targets |-> env.next_options,
        cross_sell_options |-> << >>,
        llm_invoked |-> env.has_llm,
        llm_returned |-> env.has_llm /\ env.llm_out # "raise",
        llm_text |-> IF env.has_llm /\ env.llm_out # "raise" THEN content ELSE << >>,
        response |-> IF ~env.has_llm THEN canned
                     ELSE IF env.llm_out = "raise" THEN <<"moushiwake_gozaimasen">>
                     ELSE response_text,
        options |-> <<NextOption>>,
        items |-> << >>,
        fetched |-> 0,
        added |-> 0]

\* general_response from the resolver on; an exception while the matched
\* node is rendered is logged and the run goes on with the LLM
general_response(env) ==
    IF env.matched /\ ~env.render_raises THEN render_node(env)
    ELSE generic_response(env)

NoRun ==
    [matched |-> FALSE, rendered |-> FALSE,
     llm_invoked |-> FALSE, llm_returned |-> FALSE,
     llm_text |-> << >>, node_id |-> "", subcategory |-> "",
     template |-> << >>, targets |-> << >>,
     response |-> << >>, options |-> << >>, cross_sell_options |-> << >>,
     items |-> << >>, fetched |-> 0, added |-> 0]

ResponderIdle ==
    /\ gpc = "idle"
    /\ general = NoRun

(***************************************************************************)
(* Part 7 (NormalizeSpec): the two normalizers and the synonym expansion,  *)
(*   src/core/conversation_node_system.py  (TextNormalizer)                *)
(*   src/core/simple_graph_engine.py  (_normalize_text)                    *)
(***************************************************************************)
\* TextNormalizer._to_katakana: chr(ord(c) + 96) for the hiragana
HiraganaToKatakana ==
    [ra |-> "Kra", n |-> "Kn", chi |-> "Kchi", me |-> "Kme", ni |-> "Kni",
     yu_s |-> "Kyu_s", bi |-> "Kbi", ru |-> "Kru", o |-> "Ko", do |-> "Kdo",
     bu |-> "Kbu", pu |-> "Kpu", ko |-> "Kko", su |-> "Ksu", se |-> "Kse",
     tsu |-> "Ktsu", tsu_s |-> "Ktsu_s", to |-> "Kto", wa |-> "Kwa", i |-> "Ki",
     ha |-> "Kha", ta |-> "Kta", re |-> "Kre", ka |-> "Kka", ga |-> "Kga",
     ne |-> "Kne", gi |-> "Kgi", ma |-> "Kma"]

to_katakana(text) == MapText(HiraganaToKatakana, text)

\* re.sub(r'[touten nakaguro ,]', ',')
TermCommaTable == [touten |-> "comma", nakaguro |-> "comma", comma |-> "comma"]

\* re.sub(r'\s+', ' ', text)
RECURSIVE collapse_whitespace(_)
collapse_whitespace(text) ==
    IF \A i \in 1..Len(text) : text[i] \notin Whitespace THEN text
    ELSE IF Head(text) \in Whitespace
    THEN IF Len(text) > 1 /\ text[2] \in Whitespace
         THEN collapse_whitespace(Tail(text))
         ELSE <<"sp">> \o collapse_whitespace(Tail(text))
    ELSE <<Head(text)>> \o collapse_whitespace(Tail(text))

\* str.strip()
RECURSIVE strip(_)
strip(text) ==
    IF text = << >> THEN text
    ELSE IF Head(text) \in Whitespace THEN strip(Tail(text))
    ELSE IF text[Len(text)] \in Whitespace THEN strip(SubSeq(text, 1, Len(text) - 1))
    ELSE text

\* TextNormalizer.normalize_term
normalize_term(text) ==
    IF text = << >> THEN << >>
    ELSE strip(collapse_whitespace(
            MapText(TermCommaTable, lower(to_katakana(nfkc(text))))))

\* TextNormalizer.synonym_dict, restricted to the keys "tare" and "negima"
synonym_dict ==
    { [key |-> <<"ta", "re">>,
       values |-> {<<"Kta", "Kre">>, <<"Kta", "Kre", "Jaji">>}],
      [key |-> <<"ne", "gi", "ma">>,
       values |-> {<<"Kne", "Kgi", "Kma">>, <<"Jnegi", "Jma">>}] }

\* TextNormalizer.expand_synonyms: list(set(synonyms)), as a set
expand_synonyms(term) ==
    LET normalized == normalize_term(term)
    IN {normalized} \cup
       { normalize_term(value) :
            value \in UNION { entry.values :
                                entry \in { e \in synonym_dict : Contains(e.key, normalized) } } }

\* characters of the texts handed to the normalizers
TermChars ==
    {"ta", "re", "ne", "gi", "ma", "wa", "ka", "dakuten", "sdakuten", "HKdakuten",
     "sp", "u_l"}

Texts == UNION { [1..n -> TermChars] : n \in 0..MaxText }

NormalizeIdle ==
    /\ raw_text = << >>
    /\ applied = << >>
    /\ normalizer = "none"
    /\ synonyms = {}
    /\ expanded = FALSE

(***************************************************************************)
(* The second resolver, ConversationNodeSystem.process_query with          *)
(* HybridSearchEngine of src/core/conversation_node_system.py, which       *)
(* src/core/ui_components.py calls. A page of the model has no url and no  *)
(* related menu; scores are in tenths.                                     *)
(***************************************************************************)
\* HybridSearchEngine.cat_order
cat_order ==
    <<"kihon_kakunin", "ryouri_kei", "jouhou_kakunin", "support", "hikaku_kentou",
      "menrui">>

\* cat_order.index(category) if category in cat_order else 999
cat_rank(category) ==
    IF InSeq(category, cat_order)
    THEN (CHOOSE i \in 1..Len(cat_order) : cat_order[i] = category) - 1
    ELSE 999

\* HybridSearchEngine._calculate_score
calculate_score(node, expanded_terms) ==
    10 * SumSeq([k \in 1..Len(node.keywords) |->
                    Cardinality({ t \in expanded_terms :
                                    Contains(normalize_term(node.keywords[k]), t) })])
    + 6 * Cardinality({ t \in expanded_terms : Contains(normalize_term(node.name), t) })

\* the sort key of search: priority (99 for None), then the category's rank
SortsBefore(a, b) ==
    \/ a.priority < b.priority
    \/ a.priority = b.priority /\ cat_rank(a.category) < cat_rank(b.category)

\* candidates.sort(key=...): list.sort is stable, so candidates with equal
\* keys keep the order of nodes
RECURSIVE sort_candidates(_, _)
sort_candidates(candidates, nodes) ==
    IF candidates = {} THEN << >>
    ELSE LET first == CHOOSE i \in candidates :
                         \A j \in candidates \ {i} :
                            \/ SortsBefore(nodes[i], nodes[j])
                            \/ ~SortsBefore(nodes[j], nodes[i]) /\ i < j
         IN <<first>> \o sort_candidates(candidates \ {first}, nodes)

\* HybridSearchEngine.search: the positions of the candidates, sorted
search(query, nodes) ==
    LET expanded_terms == expand_synonyms(query)
    IN sort_candidates({ i \in 1..Len(nodes) :
                           /\ nodes[i].enabled
                           /\ calculate_score(nodes[i], expanded_terms) > 0 },
                       nodes)

\* ConversationNodeSystem._create_fallback_response: the enabled node of
\* the category kihon kakunin with the least priority, 0 for the fixed text
create_fallback_response(nodes) ==
    LET fallback_nodes == { i \in 1..Len(nodes) :
                              nodes[i].enabled /\ nodes[i].category = "kihon_kakunin" }
        key(i) == IF nodes[i].priority = 0 THEN 99 ELSE nodes[i].priority
    IN IF fallback_nodes = {} THEN 0
       ELSE CHOOSE i \in fallback_nodes :
               \A j \in fallback_nodes \ {i} : key(i) < key(j) \/ (key(i) = key(j) /\ i < j)

\* ConversationNodeSystem.process_query: the position of the rendered node
process_query(user_query, nodes) ==
    LET candidates == search(user_query, nodes)
    IN IF candidates = << >> THEN create_fallback_response(nodes)
       ELSE candidates[1]

(***************************************************************************)
(* Actions of the flow.                                                    *)
(***************************************************************************)
\* NotionGraphEngine.invoke: START -> notion_node
Invoke ==
    /\ pc = "idle"
    /\ turns < MaxTurns
    /\ \E msgs \in {<<>>} \cup {<<m>> : m \in FlowMessages} :
          state' = ChannelWrite(EmptyState, InitialState(msgs))
    /\ pc' = "notion_node"
    /\ supersteps' = 0
    /\ turns' = turns + 1
    /\ execCount' = 0
    /\ observedStep' = 0
    /\ rendered' = <<>>
    /\ raisedIn' = FALSE
    /\ afterFallback' = 0
    /\ UNCHANGED <<catalogue, delivered>>
    /\ UNCHANGED <<resolveVars, apiVars, catalogVars, turnVars, responderVars,
                 normalizeVars>>

StepNotionNode ==
    /\ pc = "notion_node"
    /\ supersteps < MaxSupersteps
    /\ LET ret == notion_node(state, catalogue)
       IN /\ state' = ChannelWrite(state, ret)
          /\ pc' = route_from_notion(ChannelWrite(state, ret))
    /\ supersteps' = supersteps + 1
    /\ execCount' = execCount + 1
    /\ observedStep' = Get(state, "step_count", 0) + 1
    /\ rendered' = IF Renders(state, catalogue)
                   THEN Append(rendered, RenderedNode(state, catalogue))
                   ELSE rendered
    /\ raisedIn' = (raisedIn \/ Raises(state, catalogue))
    /\ afterFallback' = IF afterFallback > 0 /\ Renders(state, catalogue)
                        THEN afterFallback + 1 ELSE afterFallback
    /\ UNCHANGED <<catalogue, turns, delivered>>
    /\ UNCHANGED <<resolveVars, apiVars, catalogVars, turnVars, responderVars,
                 normalizeVars>>

StepFallbackResponse ==
    /\ pc = "fallback_response"
    /\ supersteps < MaxSupersteps
    /\ state' = ChannelWrite(state, fallback_response(state))
    /\ pc' = "notion_node"
    /\ supersteps' = supersteps + 1
    /\ afterFallback' = IF afterFallback = 0 THEN 1 ELSE afterFallback
    /\ UNCHANGED <<catalogue, turns, execCount, observedStep, rendered, raisedIn, delivered>>
    /\ UNCHANGED <<resolveVars, apiVars, catalogVars, turnVars, responderVars,
                 normalizeVars>>

StepEndFlow ==
    /\ pc = "end_flow"
    /\ supersteps < MaxSupersteps
    /\ state' = ChannelWrite(state, end_flow(state))
    /\ pc' = "END"
    /\ supersteps' = supersteps + 1
    /\ UNCHANGED <<catalogue, turns, execCount, observedStep, rendered, raisedIn,
                   afterFallback, delivered>>
    /\ UNCHANGED <<resolveVars, apiVars, catalogVars, turnVars, responderVars,
                 normalizeVars>>

\* invoke returns the final state; the caller waits for the next utterance
Return ==
    /\ pc = "END"
    /\ delivered' = Append(delivered, [response |-> state["response"],
                                        options |-> state["options"]])
    /\ pc' = "idle"
    /\ UNCHANGED <<catalogue, state, supersteps, turns, execCount, observedStep,
                   rendered, raisedIn, afterFallback>>
    /\ UNCHANGED <<resolveVars, apiVars, catalogVars, turnVars, responderVars,
                 normalizeVars>>

ResolveIdle ==
    /\ pages = << >>
    /\ utterance = << >>
    /\ resolved = 0
    /\ rpc = "off"

FlowInit ==
    /\ ResolveIdle
    /\ ApiIdle
    /\ CatalogIdle
    /\ TurnIdle
    /\ ResponderIdle
    /\ NormalizeIdle
    /\ catalogue \in Catalogues
    /\ state = EmptyState
    /\ pc = "idle"
    /\ supersteps = 0
    /\ turns = 0
    /\ execCount = 0
    /\ observedStep = 0
    /\ rendered = <<>>
    /\ raisedIn = FALSE
    /\ afterFallback = 0
    /\ delivered = <<>>

FlowNext ==
    \/ Invoke
    \/ StepNotionNode
    \/ StepFallbackResponse
    \/ StepEndFlow
    \/ Return

FlowSpec == FlowInit /\ [][FlowNext]_vars

(***************************************************************************)
(* Actions of the resolver.                                                *)
(***************************************************************************)
FlowIdle ==
    /\ catalogue = [len |-> 1, tail |-> "end", ctype |-> "Keyword", timeRule |-> 0,
                    hasStart |-> TRUE]
    /\ state = EmptyState
    /\ pc = "off"
    /\ supersteps = 0
    /\ turns = 0
    /\ execCount = 0
    /\ observedStep = 0
    /\ rendered = <<>>
    /\ raisedIn = FALSE
    /\ afterFallback = 0
    /\ delivered = <<>>

\* general_response: conversation_nodes = get_conversation_nodes();
\* matched_node = _find_node_by_keywords(last_message, conversation_nodes)
Resolve ==
    /\ rpc = "ready"
    /\ resolved' = find_node_by_keywords(utterance, get_conversation_nodes(pages))
    /\ rpc' = "done"
    /\ UNCHANGED <<pages, utterance>>
    /\ UNCHANGED <<flowVars, apiVars, catalogVars, turnVars, responderVars,
                 normalizeVars>>

\* ui_components.process_user_input hands the utterance to process_query
ProcessQuery ==
    /\ rpc = "ready"
    /\ resolved' = process_query(utterance, pages)
    /\ rpc' = "queried"
    /\ UNCHANGED <<pages, utterance>>
    /\ UNCHANGED <<flowVars, apiVars, catalogVars, turnVars, responderVars,
                 normalizeVars>>

ResolveInit ==
    /\ FlowIdle
    /\ ApiIdle
    /\ CatalogIdle
    /\ TurnIdle
    /\ ResponderIdle
    /\ NormalizeIdle
    /\ pages \in Snapshots
    /\ utterance \in Utterances
    /\ resolved = 0
    /\ rpc = "ready"

ResolveNext ==
    \/ Resolve
    \/ ProcessQuery

ResolveSpec == ResolveInit /\ [][ResolveNext]_vars

(***************************************************************************)
(* Actions of the chat endpoint and of the WebSocket endpoint.             *)
(***************************************************************************)
\* POST /chat
Chat ==
    /\ requests < MaxRequests
    /\ \E request_sid \in {""} \cup ClientIds \cup Stored(ai_engine),
          has_message \in BOOLEAN,
          agent_out \in {"str", "blocks", "empty", "raise"},
          graph_out \in {"ok", "raise"},
          llm_out \in {"str", "blocks", "raise"} :
          LET c == chat(ai_engine, request_sid, has_message, agent_out, graph_out, llm_out)
          IN /\ ai_engine' = c.eng
             /\ outbox' = Append(outbox, c.reply)
    /\ requests' = requests + 1
    /\ UNCHANGED <<features, active_connections, session_metadata, sockets,
                   proactive_tasks>>
    /\ UNCHANGED <<flowVars, resolveVars, catalogVars, turnVars, responderVars,
                 normalizeVars>>

\* websocket_endpoint up to its receive loop: connect, greeting, the
\* proactive task
WsConnect ==
    /\ Len(sockets) < MaxConnections
    /\ requests < MaxRequests
    /\ \E session_id \in ClientIds, invoke_out \in {"ok", "raise"} :
          LET c == Len(sockets) + 1
              greeted == features.simple_graph /\ invoke_out = "ok"
          IN /\ sockets' = Append(sockets, [session_id |-> session_id, state |-> "open"])
             /\ active_connections' =
                    [active_connections EXCEPT ![session_id] = c]
             /\ session_metadata' = session_metadata \cup {session_id}
             /\ outbox' = IF greeted
                          THEN Append(outbox, Delivery(c, "greeting", GraphText, SafeOptions))
                          ELSE outbox
             /\ proactive_tasks' = IF greeted THEN proactive_tasks \cup {c}
                                   ELSE proactive_tasks
    /\ requests' = requests + 1
    /\ UNCHANGED <<features, ai_engine>>
    /\ UNCHANGED <<flowVars, resolveVars, catalogVars, turnVars, responderVars,
                 normalizeVars>>

\* one pass of the receive loop; client_gone: the peer closed before the
\* reply was sent, so both send_json calls raise
WsReceive ==
    /\ requests < MaxRequests
    /\ \E c \in 1..Len(sockets), invoke_out \in {"ok", "raise"},
          client_gone \in BOOLEAN :
          /\ sockets[c].state = "open"
          /\ IF client_gone
             THEN /\ sockets' = [sockets EXCEPT ![c].state = "closed"]
                  /\ active_connections' =
                         disconnect(active_connections, sockets[c].session_id)
                  /\ session_metadata' =
                         IF sockets[c].session_id \in Registered(active_connections)
                         THEN session_metadata \ {sockets[c].session_id}
                         ELSE session_metadata
                  /\ outbox' = outbox
             ELSE /\ outbox' = Append(outbox,
                         IF ~features.simple_graph
                         THEN Delivery(c, "error", WsUnavailableText, <<>>)
                         ELSE IF invoke_out = "ok"
                         THEN Delivery(c, "response", GraphText, SafeOptions)
                         ELSE Delivery(c, "error", WsErrorText, <<>>))
                  /\ UNCHANGED <<sockets, active_connections, session_metadata>>
    /\ requests' = requests + 1
    /\ UNCHANGED <<features, ai_engine, proactive_tasks>>
    /\ UNCHANGED <<flowVars, resolveVars, catalogVars, turnVars, responderVars,
                 normalizeVars>>

\* the peer closes its end of the connection
ClientClose ==
    /\ \E c \in 1..Len(sockets) :
          /\ sockets[c].state = "open"
          /\ sockets' = [sockets EXCEPT ![c].state = "closing"]
    /\ UNCHANGED <<features, ai_engine, active_connections, session_metadata,
                   proactive_tasks, outbox, requests>>
    /\ UNCHANGED <<flowVars, resolveVars, catalogVars, turnVars, responderVars,
                 normalizeVars>>

\* receive_json raises WebSocketDisconnect: ws_manager.disconnect(session_id)
WsDisconnect ==
    /\ \E c \in 1..Len(sockets) :
          /\ sockets[c].state = "closing"
          /\ sockets' = [sockets EXCEPT ![c].state = "closed"]
          /\ active_connections' = disconnect(active_connections, sockets[c].session_id)
          /\ session_metadata' =
                 IF sockets[c].session_id \in Registered(active_connections)
                 THEN session_metadata \ {sockets[c].session_id}
                 ELSE session_metadata
    /\ UNCHANGED <<features, ai_engine, proactive_tasks, outbox, requests>>
    /\ UNCHANGED <<flowVars, resolveVars, catalogVars, turnVars, responderVars,
                 normalizeVars>>

\* delayed_proactive after its sleep of 90 seconds
DelayedProactive ==
    /\ \E c \in proactive_tasks, invoke_out \in {"ok", "raise"} :
          LET session_id == sockets[c].session_id
              target == send_target(active_connections, sockets, session_id)
          IN /\ proactive_tasks' = proactive_tasks \ {c}
             /\ IF invoke_out = "raise"
                THEN UNCHANGED <<active_connections, session_metadata, outbox>>
                ELSE /\ active_connections' =
                            send_personal(active_connections, sockets, session_id)
                     /\ session_metadata' =
                            IF session_id \in Registered(active_connections) /\ target = 0
                            THEN session_metadata \ {session_id}
                            ELSE session_metadata
                     /\ outbox' = IF target # 0
                                  THEN Append(outbox, Delivery(target, "proactive",
                                                               GraphText, SafeOptions))
                                  ELSE outbox
    /\ UNCHANGED <<features, ai_engine, sockets, requests>>
    /\ UNCHANGED <<flowVars, resolveVars, catalogVars, turnVars, responderVars,
                 normalizeVars>>

ApiInit ==
    /\ FlowIdle
    /\ ResolveIdle
    /\ CatalogIdle
    /\ TurnIdle
    /\ ResponderIdle
    /\ NormalizeIdle
    /\ features \in [agent_engine : BOOLEAN, graph_engine : BOOLEAN, simple_graph : BOOLEAN]
    /\ ai_engine \in [llm : BOOLEAN, uuids : {0}, sessions : {[x \in AllIds |-> NoSession]}]
    /\ active_connections = [x \in ClientIds |-> 0]
    /\ session_metadata = {}
    /\ sockets = << >>
    /\ proactive_tasks = {}
    /\ outbox = << >>
    /\ requests = 0

ApiNext ==
    \/ Chat
    \/ WsConnect
    \/ WsReceive
    \/ ClientClose
    \/ WsDisconnect
    \/ DelayedProactive

ApiSpec == ApiInit /\ [][ApiNext]_vars

(***************************************************************************)
(* Actions of the catalogue loader.                                        *)
(***************************************************************************)
\* get_conversation_nodes is entered: the cache check and the configuration
\* check
CallLoad ==
    /\ loads < MaxLoads
    /\ \E t \in Callers :
          /\ loader[t].pc = "idle"
          /\ loader' = [loader EXCEPT ![t] =
                IF cache_hit(conversation_nodes_cache, cache_fresh)
                THEN [IdleCaller EXCEPT !.pc = "done", !.prior_good = last_good,
                                        !.result = conversation_nodes_cache]
                ELSE IF ~catalog_configured
                THEN [IdleCaller EXCEPT !.pc = "done", !.prior_good = last_good]
                ELSE [IdleCaller EXCEPT !.pc = "fetch", !.prior_good = last_good]]
    /\ loads' = loads + 1
    /\ UNCHANGED <<catalog_configured, conversation_nodes_cache, cache_fresh, complete,
                   last_good>>
    /\ UNCHANGED <<flowVars, resolveVars, apiVars, turnVars, responderVars,
                 normalizeVars>>

\* nodes = self.notion_client.get_conversation_nodes(nodes_db_id, limit=200):
\* the pages read, or [] when the query failed
Fetch ==
    /\ \E t \in Callers, ok \in BOOLEAN, content \in DbContents :
          /\ loader[t].pc = "fetch"
          /\ LET nodes == IF ok THEN content ELSE <<>>
             IN /\ loader' = [loader EXCEPT ![t].pc = "build", ![t].nodes = nodes,
                                            ![t].failed = ~ok]
                /\ complete' = complete \cup {to_dict(nodes, Len(nodes))}
    /\ UNCHANGED <<catalog_configured, conversation_nodes_cache, cache_fresh, last_good,
                   loads>>
    /\ UNCHANGED <<flowVars, resolveVars, apiVars, turnVars, responderVars,
                 normalizeVars>>

\* one pass of  for node_data in nodes
Build ==
    /\ \E t \in Callers :
          /\ loader[t].pc = "build"
          /\ loader[t].k < Len(loader[t].nodes)
          /\ LET b == build_step(conversation_nodes_cache, loader[t].building,
                                 loader[t].nodes[loader[t].k + 1])
             IN /\ loader' = [loader EXCEPT ![t].k = @ + 1, ![t].building = b.building]
                /\ conversation_nodes_cache' = b.cache
    /\ UNCHANGED <<catalog_configured, cache_fresh, complete, last_good, loads>>
    /\ UNCHANGED <<flowVars, resolveVars, apiVars, turnVars, responderVars,
                 normalizeVars>>

\* self.conversation_nodes_cache = conversation_nodes
Store ==
    /\ \E t \in Callers :
          /\ loader[t].pc = "build"
          /\ loader[t].k = Len(loader[t].nodes)
          /\ conversation_nodes_cache' = loader[t].building
          /\ last_good' = IF loader[t].failed THEN last_good ELSE loader[t].building
          /\ loader' = [loader EXCEPT ![t].pc = "stamp"]
    /\ UNCHANGED <<catalog_configured, cache_fresh, complete, loads>>
    /\ UNCHANGED <<flowVars, resolveVars, apiVars, turnVars, responderVars,
                 normalizeVars>>

\* self.cache_expiry = now + 5 minutes; return conversation_nodes
Stamp ==
    /\ \E t \in Callers :
          /\ loader[t].pc = "stamp"
          /\ cache_fresh' = TRUE
          /\ loader' = [loader EXCEPT ![t].pc = "done", ![t].result = loader[t].building]
    /\ UNCHANGED <<catalog_configured, conversation_nodes_cache, complete, last_good,
                   loads>>
    /\ UNCHANGED <<flowVars, resolveVars, apiVars, turnVars, responderVars,
                 normalizeVars>>

\* the caller takes the returned dict
ReturnLoad ==
    /\ \E t \in Callers :
          /\ loader[t].pc = "done"
          /\ loader' = [loader EXCEPT ![t] = IdleCaller]
    /\ UNCHANGED <<catalog_configured, conversation_nodes_cache, cache_fresh, complete,
                   last_good, loads>>
    /\ UNCHANGED <<flowVars, resolveVars, apiVars, turnVars, responderVars,
                 normalizeVars>>

\* five minutes pass: datetime.now() >= self.cache_expiry
Expire ==
    /\ cache_fresh
    /\ cache_fresh' = FALSE
    /\ UNCHANGED <<catalog_configured, conversation_nodes_cache, loader, complete,
                   last_good, loads>>
    /\ UNCHANGED <<flowVars, resolveVars, apiVars, turnVars, responderVars,
                 normalizeVars>>

CatalogInit ==
    /\ FlowIdle
    /\ ResolveIdle
    /\ ApiIdle
    /\ TurnIdle
    /\ ResponderIdle
    /\ NormalizeIdle
    /\ catalog_configured \in BOOLEAN
    /\ conversation_nodes_cache = EmptyDict
    /\ cache_fresh = FALSE
    /\ loader = [t \in Callers |-> IdleCaller]
    /\ complete = {EmptyDict}
    /\ last_good = EmptyDict
    /\ loads = 0

CatalogNext ==
    \/ CallLoad
    \/ Fetch
    \/ Build
    \/ Store
    \/ Stamp
    \/ ReturnLoad
    \/ Expire

CatalogSpec == CatalogInit /\ [][CatalogNext]_vars

(***************************************************************************)
(* Actions of the turns.                                                   *)
(***************************************************************************)
\* the receive loop from receive_json to the await of send_json: the
\* message is taken and the graph is invoked
TurnReceive ==
    /\ received + pushes < MaxMessages
    /\ \E c \in 1..Len(sockets), message \in UserMessages, hour \in Hours,
          takeout \in TakeoutPool, invoke_out \in {"ok", "raise"} :
          LET session_id == sockets[c].session_id
              state0 == TurnState(<<message>>, "user")
              error == IF ~features.simple_graph THEN "unavailable"
                       ELSE IF invoke_out = "raise" THEN "raise" ELSE ""
              result == IF error = "" THEN simple_graph_invoke(state0, hour, takeout)
                        ELSE state0
          IN /\ sockets[c].state = "open"
             /\ ~in_flight[c].busy
             /\ in_flight' = [in_flight EXCEPT ![c] =
                    [busy |-> TRUE, state |-> state0, result |-> result,
                     error |-> error, prior |-> scratch_left[session_id]]]
    /\ received' = received + 1
    /\ UNCHANGED <<scratch_left, last_push, pushes>>
    /\ UNCHANGED <<flowVars, resolveVars, apiVars, catalogVars, responderVars,
                 normalizeVars>>

\* send_json of the receive loop returns, or raises when the peer is gone;
\* scratch_left notes the context the finished turn ended with
TurnSend ==
    /\ \E c \in 1..Len(sockets), client_gone \in BOOLEAN :
          /\ in_flight[c].busy
          /\ in_flight' = [in_flight EXCEPT ![c] = NoTurn]
          /\ IF client_gone
             THEN /\ sockets' = [sockets EXCEPT ![c].state = "closed"]
                  /\ active_connections' =
                         disconnect(active_connections, sockets[c].session_id)
                  /\ session_metadata' =
                         IF sockets[c].session_id \in Registered(active_connections)
                         THEN session_metadata \ {sockets[c].session_id}
                         ELSE session_metadata
                  /\ outbox' = outbox
                  /\ scratch_left' = scratch_left
             ELSE /\ outbox' = Append(outbox, ws_reply(c, in_flight[c]))
                  /\ scratch_left' =
                         IF in_flight[c].error = ""
                         THEN [scratch_left EXCEPT ![sockets[c].session_id] =
                                  [written |-> TRUE,
                                   bento_remaining |->
                                       in_flight[c].result.context.bento_remaining]]
                         ELSE scratch_left
                  /\ UNCHANGED <<sockets, active_connections, session_metadata>>
    /\ UNCHANGED <<features, ai_engine, proactive_tasks, requests>>
    /\ UNCHANGED <<last_push, received, pushes>>
    /\ UNCHANGED <<flowVars, resolveVars, catalogVars, responderVars,
                 normalizeVars>>

\* delayed_proactive after its sleep: invoke, then send_personal whatever
\* should_push says
ProactivePush ==
    /\ \E c \in proactive_tasks, hour \in Hours, invoke_out \in {"ok", "raise"} :
          LET session_id == sockets[c].session_id
              result == simple_graph_invoke(TurnState(<<"">>, "proactive"), hour, 0)
              target == send_target(active_connections, sockets, session_id)
          IN /\ proactive_tasks' = proactive_tasks \ {c}
             /\ IF invoke_out = "raise"
                THEN UNCHANGED <<active_connections, session_metadata, outbox,
                                 last_push, in_flight>>
                ELSE /\ active_connections' =
                            send_personal(active_connections, sockets, session_id)
                     /\ session_metadata' =
                            IF session_id \in Registered(active_connections) /\ target = 0
                            THEN session_metadata \ {session_id}
                            ELSE session_metadata
                     /\ outbox' = IF target # 0
                                  THEN Append(outbox, Delivery(target, "proactive",
                                                  result.response, result.options))
                                  ELSE outbox
                     /\ in_flight' = delayed_proactive(in_flight, c, result)
                     /\ last_push' =
                            [by |-> "delayed_proactive", session_id |-> session_id,
                             hour |-> hour, should_push |-> result.should_push,
                             sent |-> target # 0,
                             interleaved |-> \E d \in 1..Len(sockets) :
                                 in_flight[d].busy /\ sockets[d].session_id = session_id]
    /\ UNCHANGED <<features, ai_engine, sockets, requests>>
    /\ UNCHANGED <<scratch_left, received, pushes>>
    /\ UNCHANGED <<flowVars, resolveVars, catalogVars, responderVars,
                 normalizeVars>>

\* one pass of the loop of lunch_push or dinner_push: invoke, then
\* send_personal if should_push
SchedulerPush ==
    /\ received + pushes < MaxMessages
    /\ features.simple_graph
    /\ \E session_id \in Registered(active_connections), hour \in CronHours,
          invoke_out \in {"ok", "raise"} :
          LET result == simple_graph_invoke(TurnState(<<"">>, "proactive"), hour, 0)
              target == send_target(active_connections, sockets, session_id)
              sending == invoke_out = "ok" /\ result.should_push
          IN /\ active_connections' =
                    IF sending THEN send_personal(active_connections, sockets, session_id)
                    ELSE active_connections
             /\ session_metadata' =
                    IF sending /\ target = 0
                    THEN session_metadata \ {session_id}
                    ELSE session_metadata
             /\ outbox' = IF sending /\ target # 0
                          THEN Append(outbox, Delivery(target, "proactive",
                                          result.response, result.options))
                          ELSE outbox
             /\ last_push' =
                    IF invoke_out = "raise" THEN last_push
                    ELSE [by |-> "scheduler", session_id |-> session_id,
                          hour |-> hour, should_push |-> result.should_push,
                          sent |-> sending /\ target # 0,
                          interleaved |-> \E d \in 1..Len(sockets) :
                              in_flight[d].busy /\ sockets[d].session_id = session_id]
    /\ pushes' = pushes + 1
    /\ UNCHANGED <<features, ai_engine, sockets, proactive_tasks, requests>>
    /\ UNCHANGED <<in_flight, scratch_left, received>>
    /\ UNCHANGED <<flowVars, resolveVars, catalogVars, responderVars,
                 normalizeVars>>

TurnInit ==
    /\ FlowIdle
    /\ ResolveIdle
    /\ CatalogIdle
    /\ TurnIdle
    /\ ResponderIdle
    /\ NormalizeIdle
    /\ features = [agent_engine |-> FALSE, graph_engine |-> FALSE, simple_graph |-> TRUE]
    /\ ai_engine = [llm |-> FALSE, uuids |-> 0, sessions |-> [x \in AllIds |-> NoSession]]
    /\ active_connections = [x \in ClientIds |-> 0]
    /\ session_metadata = {}
    /\ sockets = << >>
    /\ proactive_tasks = {}
    /\ outbox = << >>
    /\ requests = 0

TurnNext ==
    \/ WsConnect
    \/ TurnReceive
    \/ TurnSend
    \/ ProactivePush
    \/ SchedulerPush

TurnSpec == TurnInit /\ [][TurnNext]_vars

(***************************************************************************)
(* Actions of the responder.                                               *)
(***************************************************************************)
\* the graph runs general_response
GeneralResponse ==
    /\ gpc = "idle"
    /\ \E env \in Envs :
          /\ env.nameless \subseteq 1..env.relations
          /\ general' = general_response(env)
    /\ gpc' = "end_flow"
    /\ UNCHANGED <<flowVars, resolveVars, apiVars, catalogVars, turnVars,
                 normalizeVars>>

\* the graph runs end_flow
EndFlow ==
    /\ gpc = "end_flow"
    /\ general' = [general EXCEPT !.response = simple_end_flow(general).response]
    /\ gpc' = "done"
    /\ UNCHANGED <<flowVars, resolveVars, apiVars, catalogVars, turnVars,
                 normalizeVars>>

\* invoke returns the final state to its caller; the next run starts from
\* a state of its own
ReturnGeneral ==
    /\ gpc = "done"
    /\ gpc' = "idle"
    /\ general' = NoRun
    /\ UNCHANGED <<flowVars, resolveVars, apiVars, catalogVars, turnVars,
                 normalizeVars>>

ResponderInit ==
    /\ FlowIdle
    /\ ResolveIdle
    /\ ApiIdle
    /\ CatalogIdle
    /\ TurnIdle
    /\ ResponderIdle
    /\ NormalizeIdle

ResponderNext ==
    \/ GeneralResponse
    \/ EndFlow
    \/ ReturnGeneral

ResponderSpec == ResponderInit /\ [][ResponderNext]_vars

(***************************************************************************)
(* Actions of the normalizers: a text is normalized, and the result is     *)
(* normalized again; the synonyms of the text are expanded.                *)
(***************************************************************************)
NormalizeTerm ==
    /\ normalizer \in {"none", "normalize_term"}
    /\ Len(applied) < MaxApplications
    /\ applied' = Append(applied,
                         normalize_term(IF applied = << >> THEN raw_text
                                        ELSE applied[Len(applied)]))
    /\ normalizer' = "normalize_term"
    /\ UNCHANGED <<raw_text, synonyms, expanded>>
    /\ UNCHANGED <<flowVars, resolveVars, apiVars, catalogVars, turnVars, responderVars>>

NormalizeText ==
    /\ normalizer \in {"none", "_normalize_text"}
    /\ Len(applied) < MaxApplications
    /\ applied' = Append(applied,
                         normalize_text(IF applied = << >> THEN raw_text
                                        ELSE applied[Len(applied)]))
    /\ normalizer' = "_normalize_text"
    /\ UNCHANGED <<raw_text, synonyms, expanded>>
    /\ UNCHANGED <<flowVars, resolveVars, apiVars, catalogVars, turnVars, responderVars>>

ExpandSynonyms ==
    /\ ~expanded
    /\ synonyms' = expand_synonyms(raw_text)
    /\ expanded' = TRUE
    /\ UNCHANGED <<raw_text, applied, normalizer>>
    /\ UNCHANGED <<flowVars, resolveVars, apiVars, catalogVars, turnVars, responderVars>>

NormalizeInit ==
    /\ FlowIdle
    /\ ResolveIdle
    /\ ApiIdle
    /\ CatalogIdle
    /\ TurnIdle
    /\ ResponderIdle
    /\ raw_text \in Texts
    /\ applied = << >>
    /\ normalizer = "none"
    /\ synonyms = {}
    /\ expanded = FALSE

NormalizeNext ==
    \/ NormalizeTerm
    \/ NormalizeText
    \/ ExpandSynonyms

NormalizeSpec == NormalizeInit /\ [][NormalizeNext]_vars

Spec == FlowSpec

(***************************************************************************)
(* Claims about the Notion flow (FlowSpec).                                *)
(***************************************************************************)
Terminal == pc \in {"end_flow", "END", "idle"}

\* C1: on a graph with a transition cycle, once notion_node has executed
\* more than the hop cap (20) times in one invocation the flow is Terminal
\* (every invocation reaches Terminal within the hop cap).
C1_TerminalWithinHopCap ==
    (HasCycle(catalogue) /\ execCount > HopCap) => Terminal

\* C2: whenever the number of steps of the invocation exceeds the hard cap
\* (20), the controller is Terminal and the response is the overload message
\* that tells the user to restart.
C2_OverloadIsTerminalWithRestartMessage ==
    execCount > HopCap =>
        (Terminal /\ Get(state, "response", NoResponse) = RestartText)

\* the catalogue is a chain whose every rule fires on the utterance of the turn
AutoAdvancingChain ==
    /\ catalogue.hasStart
    /\ catalogue.timeRule = 0
    /\ pc # "idle"
    /\ match_transition(catalogue.ctype, Lunch, parse_user_input(state))

\* C3: on a chain of auto-advancing nodes longer than hop cap + 1, one turn
\* renders the first hop cap + 1 nodes of the chain and no later node.
C3_RendersFirstCapPlusOneOnly ==
    (AutoAdvancingChain /\ catalogue.len > HopCap + 1 /\ afterFallback = 0) =>
        /\ Len(rendered) <= HopCap + 1
        /\ \A i \in 1..Len(rendered) : rendered[i] = i

\* C4: after fallback_response has produced its text the turn ends; no node
\* is rendered before the next utterance arrives.
C4_NoRenderAfterFallback ==
    afterFallback <= 1

\* C9: once an exception was caught while rendering a node, the response of
\* the turn is the generic apology with the safe default options.
C9_RenderFailureGivesApology ==
    raisedIn =>
        /\ Get(state, "response", NoResponse) = SystemErrorText
        /\ Get(state, "options", <<>>) = SafeOptions

(***************************************************************************)
(* Claims about the resolver (ResolveSpec).                                *)
(***************************************************************************)
Input == normalize_text(lower(utterance))

Nodes == get_conversation_nodes(pages)

\* no name, name-word, keyword or subcategory match between node and input
ZeroOverlap(node_data, normalized_input) ==
    /\ NameScore(node_data.name, normalized_input) = 0
    /\ NameWordScore(node_data.name, normalized_input) = 0
    /\ \A i \in 1..Len(NormalizedKeywords(node_data.keywords)) :
          KeywordBranch(NormalizedKeywords(node_data.keywords)[i], normalized_input) = "none"
    /\ SubcategoryScore(node_data.subcategory, normalized_input) = 0

\* C5: an utterance with zero overlap with every node of the snapshot
\* resolves to none.
C5_ZeroOverlapResolvesToNone ==
    (rpc = "done" /\ \A i \in 1..Len(Nodes) : ZeroOverlap(Nodes[i], Input))
        => resolved = 0

ScoreBeforePenalty(node_data, normalized_input) ==
    NodeScore(node_data.id, node_data, normalized_input)
    + ExclusivityPenalty(node_data.id, normalized_input)

StrictSubstring(k1, k2) == Contains(k1, k2) /\ Len(k1) < Len(k2)

\* two nodes that differ in their single keyword only
SameButKeyword(a, b) ==
    /\ a.name = b.name /\ a.subcategory = b.subcategory /\ a.category = b.category
    /\ a.priority = b.priority /\ a.implementation_class = b.implementation_class
    /\ {a.id, b.id} \cap {"bonenkai_intro", "osechi_info"} = {}
    /\ Len(a.keywords) = 1 /\ Len(b.keywords) = 1

\* the node matches the input through its own keyword and through no variant
MatchedViaOwnKeyword(node_data, normalized_input) ==
    LET ks == NormalizedKeywords(node_data.keywords)
    IN /\ KeywordBranch(ks[1], normalized_input) # "none"
       /\ \A i \in 2..Len(ks) : KeywordBranch(ks[i], normalized_input) = "none"

\* the node's own keyword occurs in the input
OwnKeywordInInput(node_data, normalized_input) ==
    KeywordBranch(NormalizedKeywords(node_data.keywords)[1], normalized_input)
        \in {"exact", "keyword_in_input"}

Score(i) == NodeScore(Nodes[i].id, Nodes[i], Input)

\* C7 as stated: K1 a strict substring of K2, both match the utterance: the
\* node matched via K2 scores at least what the otherwise identical node
\* matched via K1 scores.
C7_LongerKeywordScoresAtLeast ==
    rpc = "done" =>
        \A i, j \in 1..Len(Nodes) :
            (/\ SameButKeyword(Nodes[i], Nodes[j])
             /\ StrictSubstring(Nodes[i].keywords[1], Nodes[j].keywords[1])
             /\ MatchedViaOwnKeyword(Nodes[i], Input)
             /\ MatchedViaOwnKeyword(Nodes[j], Input))
                => Score(j) >= Score(i)

\* C7 amended: K1 a strict substring of K2 and both occur in the utterance:
\* the node matched via K2 scores at least what the otherwise identical node
\* matched via K1 scores.
C7_LongerContainedKeywordScoresAtLeast ==
    rpc = "done" =>
        \A i, j \in 1..Len(Nodes) :
            (/\ SameButKeyword(Nodes[i], Nodes[j])
             /\ StrictSubstring(Nodes[i].keywords[1], Nodes[j].keywords[1])
             /\ MatchedViaOwnKeyword(Nodes[i], Input)
             /\ MatchedViaOwnKeyword(Nodes[j], Input)
             /\ OwnKeywordInInput(Nodes[i], Input)
             /\ OwnKeywordInInput(Nodes[j], Input))
                => Score(j) >= Score(i)

C7_Witness ==
    /\ rpc = "done"
    /\ \E i, j \in 1..Len(Nodes) :
          /\ SameButKeyword(Nodes[i], Nodes[j])
          /\ StrictSubstring(Nodes[i].keywords[1], Nodes[j].keywords[1])
          /\ MatchedViaOwnKeyword(Nodes[i], Input)
          /\ MatchedViaOwnKeyword(Nodes[j], Input)
          /\ OwnKeywordInInput(Nodes[i], Input)
          /\ KeywordBranch(NormalizedKeywords(Nodes[j].keywords)[1], Input) = "exact"
          /\ Score(j) > Score(i)
          /\ resolved = j

\* C8: a page whose enabled flag is false is never returned by the resolver.
C8_DisabledNeverResolved ==
    (rpc = "done" /\ resolved # 0) => pages[resolved].enabled

(***************************************************************************)
(* Claims about the endpoints (ApiSpec).                                   *)
(***************************************************************************)
Parts(m) == {m.message[i] : i \in 1..Len(m.message)} \cup {m.detail[i] : i \in 1..Len(m.detail)}

\* C10: every message delivered to a client has a text and an option list
\* and carries no exception text.
C10_DeliveriesAreTextAndOptions ==
    \A i \in 1..Len(outbox) :
        /\ outbox[i].has_message
        /\ outbox[i].has_options
        /\ ExceptionText \notin Parts(outbox[i])

(***************************************************************************)
(* Claims about the catalogue loader (CatalogSpec).                        *)
(***************************************************************************)
\* C11: a load whose query failed, made after a load that succeeded, returns
\* the last successfully loaded snapshot.
C11_FailedLoadReturnsLastGood ==
    \A t \in Callers :
        (loader[t].pc = "done" /\ loader[t].failed /\ loader[t].prior_good # EmptyDict)
            => loader[t].result \in {loader[t].prior_good, last_good}

\* C12: the cache, and every dict a caller gets from it, is a complete
\* snapshot at every moment of a refresh: never a partly built dict.
C12_RefreshIsAtomicSwap ==
    /\ conversation_nodes_cache \in complete
    /\ \A t \in Callers : loader[t].pc = "done" => loader[t].result \in complete

C12_Witness ==
    \E t1, t2 \in Callers :
        /\ loader[t1].pc = "build"
        /\ 0 < loader[t1].k /\ loader[t1].k < Len(loader[t1].nodes)
        /\ loader[t1].building \notin complete
        /\ loader[t2].pc = "done"
        /\ loader[t2].result = conversation_nodes_cache
        /\ conversation_nodes_cache # EmptyDict

(***************************************************************************)
(* Claims about the turns of a session (TurnSpec).                         *)
(***************************************************************************)
\* C13: two turns of one session id are never in progress at the same
\* time: a turn has sent its reply before the next turn of the session id
\* is taken.
C13_OneTurnPerSessionAtATime ==
    \A c1, c2 \in 1..Len(sockets) :
        (c1 # c2 /\ sockets[c1].session_id = sockets[c2].session_id)
            => ~(in_flight[c1].busy /\ in_flight[c2].busy)

\* C14: a proactive push that runs while a turn of the same session is in
\* progress adds at most one separate message of type proactive, leaves
\* the state of the turn as it was, and the turn then replies with exactly
\* the result its own invoke computed.
C14_PushLeavesLiveTurnAlone ==
    [][ /\ \A c \in 1..Len(sockets) :
              in_flight[c].busy =>
                  \/ in_flight'[c] = in_flight[c]
                  \/ /\ ~in_flight'[c].busy
                     /\ \/ outbox' = Append(outbox, ws_reply(c, in_flight[c]))
                        \/ outbox' = outbox /\ sockets'[c].state = "closed"
        /\ (Cardinality(proactive_tasks') < Cardinality(proactive_tasks)
                \/ pushes' # pushes) =>
              \/ outbox' = outbox
              \/ /\ Len(outbox') = Len(outbox) + 1
                 /\ SubSeq(outbox', 1, Len(outbox)) = outbox
                 /\ outbox'[Len(outbox')].type = "proactive"
      ]_vars

C14_Witness ==
    /\ last_push.sent
    /\ last_push.interleaved
    /\ outbox # << >>
    /\ outbox[Len(outbox)].type = "proactive"
    /\ \E c \in 1..Len(sockets) :
          /\ in_flight[c].busy
          /\ in_flight[c].error = ""
          /\ sockets[c].session_id = last_push.session_id

\* C15: a proactive invocation at an hour outside the lunch and dinner
\* windows ends with should_push = FALSE and no message is pushed.
C15_OutsideWindowNoPush ==
    (last_push.by # "none" /\ last_push.hour \notin ServableHours)
        => (~last_push.should_push /\ ~last_push.sent)

\* C16: the turn of a session starts with the pagination scratch the
\* previous turn of the session left in its context.
C16_ScratchSurvivesToNextTurn ==
    \A c \in 1..Len(sockets) :
        (in_flight[c].busy /\ in_flight[c].prior.written)
            => in_flight[c].state.context.bento_remaining
                   = in_flight[c].prior.bento_remaining

\* C17: a turn (a chat request or a WebSocket message) appends exactly one
\* user entry and one assistant entry to the history of one session and
\* nothing to any other history.
C17_TurnAppendsOneUserOneSystem ==
    [][ (requests' = requests + 1 /\ Len(sockets') = Len(sockets)) =>
            \E x \in AllIds :
                /\ ai_engine'.sessions[x].user = ai_engine.sessions[x].user + 1
                /\ ai_engine'.sessions[x].assistant = ai_engine.sessions[x].assistant + 1
                /\ \A y \in AllIds \ {x} :
                      /\ ai_engine'.sessions[y].user = ai_engine.sessions[y].user
                      /\ ai_engine'.sessions[y].assistant = ai_engine.sessions[y].assistant
      ]_vars

(***************************************************************************)
(* Claims about general_response (ResponderSpec).                          *)
(***************************************************************************)
\* C18: the LLM is invoked in a run only if the resolver returned no node.
C18_LLMOnlyOnResolverMiss ==
    general.llm_invoked => ~general.matched

\* C19: when the resolver returned no node and the LLM answered, the text
\* handed back to the caller is the LLM's text, nothing added or changed.
C19_FallbackTextIsVerbatim ==
    (gpc = "done" /\ ~general.matched /\ general.llm_returned)
        => general.response = general.llm_text

\* C20: the cross sell of one response obtains at most 2 companion menus
\* and adds at most 2 "also order" options.
C20_CrossSellAtMostTwo ==
    general.fetched <= 2 /\ general.added <= 2

(***************************************************************************)
(* Claims about the normalizers (NormalizeSpec).                           *)
(***************************************************************************)
\* the synonyms of the table whose key occurs in the term
TriggeredSynonyms(t) ==
    UNION { entry.values : entry \in { e \in synonym_dict : Contains(e.key, t) } }

\* C25: expand_synonyms returns exactly the term's normalization and the
\* normalization of every synonym whose key occurs in the term; a term
\* containing no key gives the singleton of its normalization.
C25_ExpandIsOwnPlusTriggeredSynonyms ==
    expanded =>
        synonyms = {normalize_term(raw_text)}
                       \cup { normalize_term(value) : value \in TriggeredSynonyms(raw_text) }

\* C26: normalizing a normalized text changes nothing, for normalize_term
\* and for _normalize_text.
C26_NormalizeIsIdempotent ==
    Len(applied) >= 2 => applied[2] = applied[1]

\* the score process_query's search gives the page at position i
HybridScore(i) == calculate_score(pages[i], expand_synonyms(utterance))

\* C24: a resolver that returns a node returns one of maximal score among
\* the scored nodes, and of the nodes with that score the first in graph
\* order; _find_node_by_keywords scores every node, search every enabled one.
C24_ResolvesToFirstOfMaxScore ==
    /\ (rpc = "done" /\ resolved # 0) =>
          \A i \in 1..Len(Nodes) :
              /\ Score(i) <= Score(resolved)
              /\ Score(i) = Score(resolved) => resolved <= i
    /\ (rpc = "queried" /\ resolved # 0) =>
          \A i \in 1..Len(pages) :
              pages[i].enabled =>
                  /\ HybridScore(i) <= HybridScore(resolved)
                  /\ HybridScore(i) = HybridScore(resolved) => resolved <= i

\* the half of C24 about _find_node_by_keywords
FindNodeReturnsFirstOfMaxScore ==
    (rpc = "done" /\ resolved # 0) =>
        \A i \in 1..Len(Nodes) :
            /\ Score(i) <= Score(resolved)
            /\ Score(i) = Score(resolved) => resolved <= i

\* the sentences the cross sell appends to a response
CrossSellSentences == {"proposal_msg", "default_cross_sell_msg", "basashi_sentence"}

\* the response of the rendered node is its template and nothing of the
\* cross sell that the template did not hold already
NoSuggestionAppended ==
    \A i \in 1..Len(general.response) :
        general.response[i] \in CrossSellSentences
            => InSeq(general.response[i], general.template)

\* C21: a rendered node whose template already names a companion menu
\* gets no "also order" option for that menu and no suggestion sentence
\* naming it (the default sentence of cross_sell_message names the items).
C21_NamedCompanionIsSkipped ==
    (general.rendered /\ InSeq("companion_1", general.template))
        => /\ ~InSeq(AlsoOrder(1), general.cross_sell_options)
           /\ ~(InSeq(1, general.items)
                    /\ InSeq("default_cross_sell_msg", general.response))

\* C22: a rendered node that _should_add_cross_sell_text_for_node does not
\* accept gets no cross sell sentence and no "also order" option.
C22_CrossSellOnlyForAllowListed ==
    (general.rendered
        /\ ~should_add_cross_sell_text_for_node(general.node_id, general.subcategory))
        => /\ NoSuggestionAppended
           /\ general.cross_sell_options = << >>

\* C23: the options of a rendered node are the names of its next nodes,
\* in whatever order.
C23_OptionsAreTransitionTargets ==
    general.rendered =>
        /\ Len(general.options) = Len(general.targets)
        /\ \A o \in [kind : {"next", "also_order", "cross_link"}, item : 0..MaxRelations] :
              InSeq(o, general.options) <=> InSeq(o, general.targets)

(***************************************************************************)
(* Claims about the step counter, bento paging, the connection registry    *)
(* and the session store.                                                  *)
(***************************************************************************)
\* C27: within one invocation the k-th execution of notion_node observes
\* the step counter value k.
C27_StepCounterCarried ==
    execCount > 0 => observedStep = execCount

\* C28: a continuation turn that follows a turn of its session which left
\* menus undisplayed, and that lists menus, lists the first BentoPage of
\* exactly those menus and leaves the others, so that repeated selections
\* list every remaining menu once and the continuation option goes away
\* when none is left.
C28_ContinuationShowsNextPage ==
    \A c \in 1..Len(sockets) :
        (/\ in_flight[c].busy
         /\ in_flight[c].error = ""
         /\ in_flight[c].state.messages = <<BentoMore>>
         /\ in_flight[c].prior.written
         /\ in_flight[c].prior.bento_remaining # << >>
         /\ in_flight[c].result.display_menus # << >>)
            => /\ in_flight[c].result.display_menus \o in_flight[c].result.context.bento_remaining
                     = in_flight[c].prior.bento_remaining
               /\ Len(in_flight[c].result.display_menus) <= BentoPage
               /\ (in_flight[c].result.context.bento_remaining = << >>
                      => in_flight[c].result.options = << >>)


\* C29: a session that has a live connection is in the active-session
\* set; when a second connection came in under the session id of a first
\* one, the disconnect or the failed send of the first one leaves the
\* registration of the second one in place.
C29_LiveSessionIsRegistered ==
    \A c \in 1..Len(sockets) :
        sockets[c].state = "open"
            => sockets[c].session_id \in Registered(active_connections)

\* C30: generate_response called with session id s appends only to the
\* history stored under s: the histories stored under the other ids and
\* the set of stored sessions are as they were before the call.
C30_GenerateResponseKeepsToItsSession ==
    \A s \in ClientIds \cup Stored(ai_engine), llm_out \in {"str", "blocks", "raise"} :
        LET after == generate_response(ai_engine, s, llm_out).eng
        IN /\ Stored(after) = Stored(ai_engine)
           /\ \A y \in AllIds \ {s} : after.sessions[y] = ai_engine.sessions[y]

====
